---- MODULE Spec2Model ----
(***************************************************************************)
(* AgentJobs: the candidate-to-job matching engine (services/matcher.py),  *)
(* the skill normaliser it uses (services/skills.py), the job search       *)
(* (services/search.py) over the jobs table and its full-text index        *)
(* (database.py), and the agent endpoint (routers/agent.py).  Python       *)
(* strings are sequences of one-character strings, so that lower(),        *)
(* strip(), the `in` substring test and SQL's LIKE are computed, not       *)
(* assumed.  An Optional value is the empty set (None) or a singleton.     *)
(***************************************************************************)
EXTENDS Integers, Sequences, FiniteSets, TLC

VARIABLES
    jobs,      \* the jobs table, in rowid order: a sequence of rows
    now,       \* the wall clock, in hours
    req,       \* the match_jobs invocation in flight
    result,    \* what the last match_jobs invocation returned or raised
    call,      \* a direct call of one function: its name and arguments
    ret,       \* what that call returned
    companies, \* the companies table: a set of rows
    fts,       \* the jobs_fts index: a set of documents
    sessions,  \* the agent_sessions table, in insertion order
    inv,       \* the requests being served: each one's handler, position and locals
    _db,       \* database._db: None or the connection it refers to
    conn       \* the connections opened and closed, and the callers of get_db / close_db

service == <<companies, fts, sessions, inv, _db, conn>>
vars == <<jobs, now, req, result, call, ret, service>>

\* ---------------------------------------------------------------- bounds

MaxJobs == 3
MaxLimit == 2
MaxCandSkills == 2
MaxJobSkills == 3
MaxPrefs == 2
MaxYears == 4
MaxSalary == 10
MaxDays == 32

\* ------------------------------------------------------- Python values

None == {}
Some(v) == {v}
Val(o) == CHOOSE v \in o : TRUE

Range(s) == {s[i] : i \in 1..Len(s)}
SeqsUpTo(S, n) == UNION {[1..k -> S] : k \in 0..n}

UPPER == <<"A", "B", "C", "D", "E", "F", "G", "H", "I", "J", "K", "L", "M",
           "N", "O", "P", "Q", "R", "S", "T", "U", "V", "W", "X", "Y", "Z">>
LOWER == <<"a", "b", "c", "d", "e", "f", "g", "h", "i", "j", "k", "l", "m",
           "n", "o", "p", "q", "r", "s", "t", "u", "v", "w", "x", "y", "z">>
DIGITS == <<"0", "1", "2", "3", "4", "5", "6", "7", "8", "9">>

\* The characters the model's strings use, in code-point order.
Alphabet ==
    <<"\t", " ", "#", "&", "+", ",", "-", ".", "/">> \o DIGITS \o UPPER \o <<"_">> \o LOWER

ord(c) == CHOOSE i \in 1..Len(Alphabet) : Alphabet[i] = c

\* str.lower()
lower_char(c) ==
    IF c \in Range(UPPER) THEN LOWER[CHOOSE i \in 1..Len(UPPER) : UPPER[i] = c] ELSE c
str_lower(s) == [i \in 1..Len(s) |-> lower_char(s[i])]

is_space(c) == c \in {" ", "\t"}

\* str.strip(): drops leading and trailing whitespace.
RECURSIVE str_lstrip(_)
str_lstrip(s) == IF s # <<>> /\ is_space(Head(s)) THEN str_lstrip(Tail(s)) ELSE s
RECURSIVE str_rstrip(_)
str_rstrip(s) ==
    IF s # <<>> /\ is_space(s[Len(s)]) THEN str_rstrip(SubSeq(s, 1, Len(s) - 1)) ELSE s
str_strip(s) == str_rstrip(str_lstrip(s))

\* Python's `a in b` on strings: a is a contiguous substring of b.
str_in(a, b) ==
    \E i \in 0..(Len(b) - Len(a)) : SubSeq(b, i + 1, i + Len(a)) = a

\* Python's `<` on strings: lexicographic by code point.
RECURSIVE str_lt(_, _)
str_lt(a, b) ==
    IF a = <<>> THEN b # <<>>
    ELSE IF b = <<>> THEN FALSE
    ELSE IF a[1] = b[1] THEN str_lt(Tail(a), Tail(b))
    ELSE ord(a[1]) < ord(b[1])

\* sorted(list(S)) of a set of strings.
RECURSIVE sorted(_)
sorted(S) ==
    IF S = {} THEN <<>>
    ELSE LET m == CHOOSE x \in S : \A y \in S \ {x} : str_lt(x, y)
         IN  <<m>> \o sorted(S \ {m})

\* xs[:n]
Take(xs, n) == SubSeq(xs, 1, IF n < Len(xs) THEN n ELSE Len(xs))

\* ------------------------------------------------------ services/skills.py

\* The alias table, key -> canonical.
SKILL_ALIASES ==
    (<<"p", "y", "t", "h", "o", "n">> :> <<"p", "y", "t", "h", "o", "n">>) @@
    (<<"p", "y", "t", "h", "o", "n", "3">> :> <<"p", "y", "t", "h", "o", "n">>) @@
    (<<"p", "y">> :> <<"p", "y", "t", "h", "o", "n">>) @@
    (<<"j", "a", "v", "a", "s", "c", "r", "i", "p", "t">> :> <<"j", "a", "v", "a", "s", "c", "r", "i", "p", "t">>) @@
    (<<"j", "s">> :> <<"j", "a", "v", "a", "s", "c", "r", "i", "p", "t">>) @@
    (<<"n", "o", "d", "e", ".", "j", "s">> :> <<"n", "o", "d", "e", "j", "s">>) @@
    (<<"n", "o", "d", "e", "j", "s">> :> <<"n", "o", "d", "e", "j", "s">>) @@
    (<<"n", "o", "d", "e">> :> <<"n", "o", "d", "e", "j", "s">>) @@
    (<<"t", "y", "p", "e", "s", "c", "r", "i", "p", "t">> :> <<"t", "y", "p", "e", "s", "c", "r", "i", "p", "t">>) @@
    (<<"t", "s">> :> <<"t", "y", "p", "e", "s", "c", "r", "i", "p", "t">>) @@
    (<<"r", "e", "a", "c", "t">> :> <<"r", "e", "a", "c", "t">>) @@
    (<<"r", "e", "a", "c", "t", "j", "s">> :> <<"r", "e", "a", "c", "t">>) @@
    (<<"r", "e", "a", "c", "t", ".", "j", "s">> :> <<"r", "e", "a", "c", "t">>) @@
    (<<"a", "n", "g", "u", "l", "a", "r">> :> <<"a", "n", "g", "u", "l", "a", "r">>) @@
    (<<"a", "n", "g", "u", "l", "a", "r", "j", "s">> :> <<"a", "n", "g", "u", "l", "a", "r">>) @@
    (<<"v", "u", "e">> :> <<"v", "u", "e">>) @@
    (<<"v", "u", "e", "j", "s">> :> <<"v", "u", "e">>) @@
    (<<"v", "u", "e", ".", "j", "s">> :> <<"v", "u", "e">>) @@
    (<<"j", "a", "v", "a">> :> <<"j", "a", "v", "a">>) @@
    (<<"c", "+", "+">> :> <<"c", "p", "p">>) @@
    (<<"c", "p", "p">> :> <<"c", "p", "p">>) @@
    (<<"c", "#">> :> <<"c", "s", "h", "a", "r", "p">>) @@
    (<<"c", "s", "h", "a", "r", "p">> :> <<"c", "s", "h", "a", "r", "p">>) @@
    (<<"c", "-", "s", "h", "a", "r", "p">> :> <<"c", "s", "h", "a", "r", "p">>) @@
    (<<"g", "o", "l", "a", "n", "g">> :> <<"g", "o">>) @@
    (<<"g", "o">> :> <<"g", "o">>) @@
    (<<"r", "u", "s", "t">> :> <<"r", "u", "s", "t">>) @@
    (<<"r", "u", "b", "y">> :> <<"r", "u", "b", "y">>) @@
    (<<"r", "a", "i", "l", "s">> :> <<"r", "u", "b", "y", "-", "o", "n", "-", "r", "a", "i", "l", "s">>) @@
    (<<"r", "u", "b", "y", " ", "o", "n", " ", "r", "a", "i", "l", "s">> :> <<"r", "u", "b", "y", "-", "o", "n", "-", "r", "a", "i", "l", "s">>) @@
    (<<"p", "h", "p">> :> <<"p", "h", "p">>) @@
    (<<"s", "w", "i", "f", "t">> :> <<"s", "w", "i", "f", "t">>) @@
    (<<"k", "o", "t", "l", "i", "n">> :> <<"k", "o", "t", "l", "i", "n">>) @@
    (<<"s", "c", "a", "l", "a">> :> <<"s", "c", "a", "l", "a">>) @@
    (<<"r">> :> <<"r">>) @@
    (<<"s", "q", "l">> :> <<"s", "q", "l">>) @@
    (<<"m", "y", "s", "q", "l">> :> <<"m", "y", "s", "q", "l">>) @@
    (<<"p", "o", "s", "t", "g", "r", "e", "s", "q", "l">> :> <<"p", "o", "s", "t", "g", "r", "e", "s", "q", "l">>) @@
    (<<"p", "o", "s", "t", "g", "r", "e", "s">> :> <<"p", "o", "s", "t", "g", "r", "e", "s", "q", "l">>) @@
    (<<"m", "o", "n", "g", "o", "d", "b">> :> <<"m", "o", "n", "g", "o", "d", "b">>) @@
    (<<"m", "o", "n", "g", "o">> :> <<"m", "o", "n", "g", "o", "d", "b">>) @@
    (<<"r", "e", "d", "i", "s">> :> <<"r", "e", "d", "i", "s">>) @@
    (<<"e", "l", "a", "s", "t", "i", "c", "s", "e", "a", "r", "c", "h">> :> <<"e", "l", "a", "s", "t", "i", "c", "s", "e", "a", "r", "c", "h">>) @@
    (<<"k", "a", "f", "k", "a">> :> <<"k", "a", "f", "k", "a">>) @@
    (<<"r", "a", "b", "b", "i", "t", "m", "q">> :> <<"r", "a", "b", "b", "i", "t", "m", "q">>) @@
    (<<"a", "w", "s">> :> <<"a", "w", "s">>) @@
    (<<"a", "m", "a", "z", "o", "n", " ", "w", "e", "b", " ", "s", "e", "r", "v", "i", "c", "e", "s">> :> <<"a", "w", "s">>) @@
    (<<"g", "c", "p">> :> <<"g", "c", "p">>) @@
    (<<"g", "o", "o", "g", "l", "e", " ", "c", "l", "o", "u", "d">> :> <<"g", "c", "p">>) @@
    (<<"a", "z", "u", "r", "e">> :> <<"a", "z", "u", "r", "e">>) @@
    (<<"m", "i", "c", "r", "o", "s", "o", "f", "t", " ", "a", "z", "u", "r", "e">> :> <<"a", "z", "u", "r", "e">>) @@
    (<<"d", "o", "c", "k", "e", "r">> :> <<"d", "o", "c", "k", "e", "r">>) @@
    (<<"k", "u", "b", "e", "r", "n", "e", "t", "e", "s">> :> <<"k", "u", "b", "e", "r", "n", "e", "t", "e", "s">>) @@
    (<<"k", "8", "s">> :> <<"k", "u", "b", "e", "r", "n", "e", "t", "e", "s">>) @@
    (<<"t", "e", "r", "r", "a", "f", "o", "r", "m">> :> <<"t", "e", "r", "r", "a", "f", "o", "r", "m">>) @@
    (<<"a", "n", "s", "i", "b", "l", "e">> :> <<"a", "n", "s", "i", "b", "l", "e">>) @@
    (<<"j", "e", "n", "k", "i", "n", "s">> :> <<"j", "e", "n", "k", "i", "n", "s">>) @@
    (<<"c", "i", "/", "c", "d">> :> <<"c", "i", "-", "c", "d">>) @@
    (<<"c", "i", "c", "d">> :> <<"c", "i", "-", "c", "d">>) @@
    (<<"g", "i", "t">> :> <<"g", "i", "t">>) @@
    (<<"g", "i", "t", "h", "u", "b">> :> <<"g", "i", "t", "h", "u", "b">>) @@
    (<<"g", "i", "t", "l", "a", "b">> :> <<"g", "i", "t", "l", "a", "b">>) @@
    (<<"l", "i", "n", "u", "x">> :> <<"l", "i", "n", "u", "x">>) @@
    (<<"u", "n", "i", "x">> :> <<"u", "n", "i", "x">>) @@
    (<<"m", "a", "c", "h", "i", "n", "e", " ", "l", "e", "a", "r", "n", "i", "n", "g">> :> <<"m", "a", "c", "h", "i", "n", "e", "-", "l", "e", "a", "r", "n", "i", "n", "g">>) @@
    (<<"m", "l">> :> <<"m", "a", "c", "h", "i", "n", "e", "-", "l", "e", "a", "r", "n", "i", "n", "g">>) @@
    (<<"d", "e", "e", "p", " ", "l", "e", "a", "r", "n", "i", "n", "g">> :> <<"d", "e", "e", "p", "-", "l", "e", "a", "r", "n", "i", "n", "g">>) @@
    (<<"d", "l">> :> <<"d", "e", "e", "p", "-", "l", "e", "a", "r", "n", "i", "n", "g">>) @@
    (<<"a", "r", "t", "i", "f", "i", "c", "i", "a", "l", " ", "i", "n", "t", "e", "l", "l", "i", "g", "e", "n", "c", "e">> :> <<"a", "i">>) @@
    (<<"a", "i">> :> <<"a", "i">>) @@
    (<<"n", "l", "p">> :> <<"n", "l", "p">>) @@
    (<<"n", "a", "t", "u", "r", "a", "l", " ", "l", "a", "n", "g", "u", "a", "g", "e", " ", "p", "r", "o", "c", "e", "s", "s", "i", "n", "g">> :> <<"n", "l", "p">>) @@
    (<<"c", "o", "m", "p", "u", "t", "e", "r", " ", "v", "i", "s", "i", "o", "n">> :> <<"c", "o", "m", "p", "u", "t", "e", "r", "-", "v", "i", "s", "i", "o", "n">>) @@
    (<<"c", "v">> :> <<"c", "o", "m", "p", "u", "t", "e", "r", "-", "v", "i", "s", "i", "o", "n">>) @@
    (<<"t", "e", "n", "s", "o", "r", "f", "l", "o", "w">> :> <<"t", "e", "n", "s", "o", "r", "f", "l", "o", "w">>) @@
    (<<"t", "f">> :> <<"t", "e", "n", "s", "o", "r", "f", "l", "o", "w">>) @@
    (<<"p", "y", "t", "o", "r", "c", "h">> :> <<"p", "y", "t", "o", "r", "c", "h">>) @@
    (<<"t", "o", "r", "c", "h">> :> <<"p", "y", "t", "o", "r", "c", "h">>) @@
    (<<"k", "e", "r", "a", "s">> :> <<"k", "e", "r", "a", "s">>) @@
    (<<"s", "c", "i", "k", "i", "t", "-", "l", "e", "a", "r", "n">> :> <<"s", "c", "i", "k", "i", "t", "-", "l", "e", "a", "r", "n">>) @@
    (<<"s", "k", "l", "e", "a", "r", "n">> :> <<"s", "c", "i", "k", "i", "t", "-", "l", "e", "a", "r", "n">>) @@
    (<<"p", "a", "n", "d", "a", "s">> :> <<"p", "a", "n", "d", "a", "s">>) @@
    (<<"n", "u", "m", "p", "y">> :> <<"n", "u", "m", "p", "y">>) @@
    (<<"s", "c", "i", "p", "y">> :> <<"s", "c", "i", "p", "y">>) @@
    (<<"m", "a", "t", "p", "l", "o", "t", "l", "i", "b">> :> <<"m", "a", "t", "p", "l", "o", "t", "l", "i", "b">>) @@
    (<<"t", "a", "b", "l", "e", "a", "u">> :> <<"t", "a", "b", "l", "e", "a", "u">>) @@
    (<<"p", "o", "w", "e", "r", " ", "b", "i">> :> <<"p", "o", "w", "e", "r", "-", "b", "i">>) @@
    (<<"p", "o", "w", "e", "r", "b", "i">> :> <<"p", "o", "w", "e", "r", "-", "b", "i">>) @@
    (<<"d", "a", "t", "a", " ", "a", "n", "a", "l", "y", "s", "i", "s">> :> <<"d", "a", "t", "a", "-", "a", "n", "a", "l", "y", "s", "i", "s">>) @@
    (<<"d", "a", "t", "a", " ", "e", "n", "g", "i", "n", "e", "e", "r", "i", "n", "g">> :> <<"d", "a", "t", "a", "-", "e", "n", "g", "i", "n", "e", "e", "r", "i", "n", "g">>) @@
    (<<"d", "a", "t", "a", " ", "s", "c", "i", "e", "n", "c", "e">> :> <<"d", "a", "t", "a", "-", "s", "c", "i", "e", "n", "c", "e">>) @@
    (<<"e", "t", "l">> :> <<"e", "t", "l">>) @@
    (<<"s", "p", "a", "r", "k">> :> <<"a", "p", "a", "c", "h", "e", "-", "s", "p", "a", "r", "k">>) @@
    (<<"a", "p", "a", "c", "h", "e", " ", "s", "p", "a", "r", "k">> :> <<"a", "p", "a", "c", "h", "e", "-", "s", "p", "a", "r", "k">>) @@
    (<<"h", "a", "d", "o", "o", "p">> :> <<"h", "a", "d", "o", "o", "p">>) @@
    (<<"h", "i", "v", "e">> :> <<"h", "i", "v", "e">>) @@
    (<<"a", "i", "r", "f", "l", "o", "w">> :> <<"a", "p", "a", "c", "h", "e", "-", "a", "i", "r", "f", "l", "o", "w">>) @@
    (<<"a", "p", "a", "c", "h", "e", " ", "a", "i", "r", "f", "l", "o", "w">> :> <<"a", "p", "a", "c", "h", "e", "-", "a", "i", "r", "f", "l", "o", "w">>) @@
    (<<"r", "e", "s", "t", " ", "a", "p", "i">> :> <<"r", "e", "s", "t", "-", "a", "p", "i">>) @@
    (<<"r", "e", "s", "t", "f", "u", "l">> :> <<"r", "e", "s", "t", "-", "a", "p", "i">>) @@
    (<<"g", "r", "a", "p", "h", "q", "l">> :> <<"g", "r", "a", "p", "h", "q", "l">>) @@
    (<<"m", "i", "c", "r", "o", "s", "e", "r", "v", "i", "c", "e", "s">> :> <<"m", "i", "c", "r", "o", "s", "e", "r", "v", "i", "c", "e", "s">>) @@
    (<<"s", "y", "s", "t", "e", "m", " ", "d", "e", "s", "i", "g", "n">> :> <<"s", "y", "s", "t", "e", "m", "-", "d", "e", "s", "i", "g", "n">>) @@
    (<<"d", "s", "a">> :> <<"d", "a", "t", "a", "-", "s", "t", "r", "u", "c", "t", "u", "r", "e", "s">>) @@
    (<<"d", "a", "t", "a", " ", "s", "t", "r", "u", "c", "t", "u", "r", "e", "s">> :> <<"d", "a", "t", "a", "-", "s", "t", "r", "u", "c", "t", "u", "r", "e", "s">>) @@
    (<<"a", "l", "g", "o", "r", "i", "t", "h", "m", "s">> :> <<"a", "l", "g", "o", "r", "i", "t", "h", "m", "s">>) @@
    (<<"a", "g", "i", "l", "e">> :> <<"a", "g", "i", "l", "e">>) @@
    (<<"s", "c", "r", "u", "m">> :> <<"s", "c", "r", "u", "m">>) @@
    (<<"j", "i", "r", "a">> :> <<"j", "i", "r", "a">>) @@
    (<<"f", "i", "g", "m", "a">> :> <<"f", "i", "g", "m", "a">>) @@
    (<<"s", "k", "e", "t", "c", "h">> :> <<"s", "k", "e", "t", "c", "h">>) @@
    (<<"a", "d", "o", "b", "e", " ", "x", "d">> :> <<"a", "d", "o", "b", "e", "-", "x", "d">>) @@
    (<<"p", "h", "o", "t", "o", "s", "h", "o", "p">> :> <<"p", "h", "o", "t", "o", "s", "h", "o", "p">>) @@
    (<<"i", "l", "l", "u", "s", "t", "r", "a", "t", "o", "r">> :> <<"i", "l", "l", "u", "s", "t", "r", "a", "t", "o", "r">>) @@
    (<<"h", "t", "m", "l">> :> <<"h", "t", "m", "l">>) @@
    (<<"c", "s", "s">> :> <<"c", "s", "s">>) @@
    (<<"s", "a", "s", "s">> :> <<"s", "a", "s", "s">>) @@
    (<<"t", "a", "i", "l", "w", "i", "n", "d">> :> <<"t", "a", "i", "l", "w", "i", "n", "d", "-", "c", "s", "s">>) @@
    (<<"t", "a", "i", "l", "w", "i", "n", "d", "c", "s", "s">> :> <<"t", "a", "i", "l", "w", "i", "n", "d", "-", "c", "s", "s">>) @@
    (<<"b", "o", "o", "t", "s", "t", "r", "a", "p">> :> <<"b", "o", "o", "t", "s", "t", "r", "a", "p">>) @@
    (<<"d", "j", "a", "n", "g", "o">> :> <<"d", "j", "a", "n", "g", "o">>) @@
    (<<"f", "l", "a", "s", "k">> :> <<"f", "l", "a", "s", "k">>) @@
    (<<"f", "a", "s", "t", "a", "p", "i">> :> <<"f", "a", "s", "t", "a", "p", "i">>) @@
    (<<"s", "p", "r", "i", "n", "g">> :> <<"s", "p", "r", "i", "n", "g">>) @@
    (<<"s", "p", "r", "i", "n", "g", " ", "b", "o", "o", "t">> :> <<"s", "p", "r", "i", "n", "g", "-", "b", "o", "o", "t">>) @@
    (<<"s", "p", "r", "i", "n", "g", "b", "o", "o", "t">> :> <<"s", "p", "r", "i", "n", "g", "-", "b", "o", "o", "t">>) @@
    (<<".", "n", "e", "t">> :> <<"d", "o", "t", "n", "e", "t">>) @@
    (<<"d", "o", "t", "n", "e", "t">> :> <<"d", "o", "t", "n", "e", "t">>) @@
    (<<"a", "s", "p", ".", "n", "e", "t">> :> <<"a", "s", "p", "-", "d", "o", "t", "n", "e", "t">>) @@
    (<<"e", "x", "p", "r", "e", "s", "s">> :> <<"e", "x", "p", "r", "e", "s", "s">>) @@
    (<<"e", "x", "p", "r", "e", "s", "s", "j", "s">> :> <<"e", "x", "p", "r", "e", "s", "s">>) @@
    (<<"n", "e", "x", "t", ".", "j", "s">> :> <<"n", "e", "x", "t", "j", "s">>) @@
    (<<"n", "e", "x", "t", "j", "s">> :> <<"n", "e", "x", "t", "j", "s">>) @@
    (<<"n", "u", "x", "t">> :> <<"n", "u", "x", "t">>) @@
    (<<"n", "u", "x", "t", "j", "s">> :> <<"n", "u", "x", "t">>) @@
    (<<"f", "l", "u", "t", "t", "e", "r">> :> <<"f", "l", "u", "t", "t", "e", "r">>) @@
    (<<"r", "e", "a", "c", "t", " ", "n", "a", "t", "i", "v", "e">> :> <<"r", "e", "a", "c", "t", "-", "n", "a", "t", "i", "v", "e">>) @@
    (<<"a", "n", "d", "r", "o", "i", "d">> :> <<"a", "n", "d", "r", "o", "i", "d">>) @@
    (<<"i", "o", "s">> :> <<"i", "o", "s">>) @@
    (<<"m", "o", "b", "i", "l", "e", " ", "d", "e", "v", "e", "l", "o", "p", "m", "e", "n", "t">> :> <<"m", "o", "b", "i", "l", "e", "-", "d", "e", "v", "e", "l", "o", "p", "m", "e", "n", "t">>) @@
    (<<"d", "e", "v", "o", "p", "s">> :> <<"d", "e", "v", "o", "p", "s">>) @@
    (<<"s", "r", "e">> :> <<"s", "r", "e">>) @@
    (<<"s", "i", "t", "e", " ", "r", "e", "l", "i", "a", "b", "i", "l", "i", "t", "y">> :> <<"s", "r", "e">>) @@
    (<<"c", "y", "b", "e", "r", "s", "e", "c", "u", "r", "i", "t", "y">> :> <<"c", "y", "b", "e", "r", "s", "e", "c", "u", "r", "i", "t", "y">>) @@
    (<<"s", "e", "c", "u", "r", "i", "t", "y">> :> <<"s", "e", "c", "u", "r", "i", "t", "y">>) @@
    (<<"p", "e", "n", "e", "t", "r", "a", "t", "i", "o", "n", " ", "t", "e", "s", "t", "i", "n", "g">> :> <<"p", "e", "n", "e", "t", "r", "a", "t", "i", "o", "n", "-", "t", "e", "s", "t", "i", "n", "g">>) @@
    (<<"b", "l", "o", "c", "k", "c", "h", "a", "i", "n">> :> <<"b", "l", "o", "c", "k", "c", "h", "a", "i", "n">>) @@
    (<<"w", "e", "b", "3">> :> <<"w", "e", "b", "3">>) @@
    (<<"s", "o", "l", "i", "d", "i", "t", "y">> :> <<"s", "o", "l", "i", "d", "i", "t", "y">>) @@
    (<<"u", "n", "i", "t", "y">> :> <<"u", "n", "i", "t", "y">>) @@
    (<<"u", "n", "r", "e", "a", "l">> :> <<"u", "n", "r", "e", "a", "l", "-", "e", "n", "g", "i", "n", "e">>) @@
    (<<"g", "a", "m", "e", " ", "d", "e", "v", "e", "l", "o", "p", "m", "e", "n", "t">> :> <<"g", "a", "m", "e", "-", "d", "e", "v", "e", "l", "o", "p", "m", "e", "n", "t">>) @@
    (<<"d", "a", "t", "a", " ", "a", "n", "n", "o", "t", "a", "t", "i", "o", "n">> :> <<"d", "a", "t", "a", "-", "a", "n", "n", "o", "t", "a", "t", "i", "o", "n">>) @@
    (<<"d", "a", "t", "a", " ", "l", "a", "b", "e", "l", "i", "n", "g">> :> <<"d", "a", "t", "a", "-", "a", "n", "n", "o", "t", "a", "t", "i", "o", "n">>) @@
    (<<"e", "x", "c", "e", "l">> :> <<"e", "x", "c", "e", "l">>) @@
    (<<"s", "a", "p">> :> <<"s", "a", "p", "-", "e", "r", "p">>) @@
    (<<"s", "a", "l", "e", "s", "f", "o", "r", "c", "e">> :> <<"s", "a", "l", "e", "s", "f", "o", "r", "c", "e", "-", "c", "r", "m">>) @@
    (<<"c", "o", "m", "m", "u", "n", "i", "c", "a", "t", "i", "o", "n">> :> <<"c", "o", "m", "m", "u", "n", "i", "c", "a", "t", "i", "o", "n">>) @@
    (<<"l", "e", "a", "d", "e", "r", "s", "h", "i", "p">> :> <<"l", "e", "a", "d", "e", "r", "s", "h", "i", "p">>) @@
    (<<"p", "r", "o", "j", "e", "c", "t", " ", "m", "a", "n", "a", "g", "e", "m", "e", "n", "t">> :> <<"p", "r", "o", "j", "e", "c", "t", "-", "m", "a", "n", "a", "g", "e", "m", "e", "n", "t">>) @@
    (<<"p", "r", "o", "d", "u", "c", "t", " ", "m", "a", "n", "a", "g", "e", "m", "e", "n", "t">> :> <<"p", "r", "o", "d", "u", "c", "t", "-", "m", "a", "n", "a", "g", "e", "m", "e", "n", "t">>) @@
    (<<"u", "x">> :> <<"u", "x", "-", "d", "e", "s", "i", "g", "n">>) @@
    (<<"u", "i">> :> <<"u", "i", "-", "d", "e", "s", "i", "g", "n">>) @@
    (<<"u", "x", " ", "d", "e", "s", "i", "g", "n">> :> <<"u", "x", "-", "d", "e", "s", "i", "g", "n">>) @@
    (<<"u", "i", " ", "d", "e", "s", "i", "g", "n">> :> <<"u", "i", "-", "d", "e", "s", "i", "g", "n">>) @@
    (<<"u", "i", "/", "u", "x">> :> <<"u", "i", "-", "u", "x", "-", "d", "e", "s", "i", "g", "n">>) @@
    (<<"u", "s", "e", "r", " ", "r", "e", "s", "e", "a", "r", "c", "h">> :> <<"u", "s", "e", "r", "-", "r", "e", "s", "e", "a", "r", "c", "h">>) @@
    (<<"s", "e", "o">> :> <<"s", "e", "o">>) @@
    (<<"s", "e", "m">> :> <<"s", "e", "m">>) @@
    (<<"g", "o", "o", "g", "l", "e", " ", "a", "n", "a", "l", "y", "t", "i", "c", "s">> :> <<"g", "o", "o", "g", "l", "e", "-", "a", "n", "a", "l", "y", "t", "i", "c", "s">>) @@
    (<<"d", "i", "g", "i", "t", "a", "l", " ", "m", "a", "r", "k", "e", "t", "i", "n", "g">> :> <<"d", "i", "g", "i", "t", "a", "l", "-", "m", "a", "r", "k", "e", "t", "i", "n", "g">>) @@
    (<<"c", "o", "n", "t", "e", "n", "t", " ", "m", "a", "r", "k", "e", "t", "i", "n", "g">> :> <<"c", "o", "n", "t", "e", "n", "t", "-", "m", "a", "r", "k", "e", "t", "i", "n", "g">>) @@
    (<<"s", "o", "c", "i", "a", "l", " ", "m", "e", "d", "i", "a">> :> <<"s", "o", "c", "i", "a", "l", "-", "m", "e", "d", "i", "a", "-", "m", "a", "r", "k", "e", "t", "i", "n", "g">>) @@
    (<<"c", "o", "p", "y", "w", "r", "i", "t", "i", "n", "g">> :> <<"c", "o", "p", "y", "w", "r", "i", "t", "i", "n", "g">>)

\* The table looked up before the strip, the strip done on what comes out.
normalize_skill_strip_last(skill) ==
    LET s == str_lower(skill)
    IN  str_strip(IF s \in DOMAIN SKILL_ALIASES THEN SKILL_ALIASES[s] ELSE s)

normalize_skill(skill) ==
    LET s == str_lower(str_strip(skill))
    IN  IF s \in DOMAIN SKILL_ALIASES THEN SKILL_ALIASES[s] ELSE s

\* Keeps first-seen order, drops repeats and empty tokens.
RECURSIVE normalize_skills_from(_, _, _)
normalize_skills_from(skills, seen, out) ==
    IF skills = <<>> THEN out
    ELSE LET normalized == normalize_skill(Head(skills))
         IN  IF normalized # <<>> /\ normalized \notin seen
             THEN normalize_skills_from(Tail(skills), seen \cup {normalized},
                                        Append(out, normalized))
             ELSE normalize_skills_from(Tail(skills), seen, out)

normalize_skills(skills) == normalize_skills_from(skills, {}, <<>>)

\* \w of the re module, on the model's characters.
is_word_char(c) == c \in Range(UPPER) \cup Range(LOWER) \cup Range(DIGITS) \cup {"_"}

\* \b at the gap after the first p characters of text: exactly one of the two
\* neighbours is a word character (the ends of the text count as non-word).
word_boundary(text, p) ==
    (p >= 1 /\ is_word_char(text[p])) # (p < Len(text) /\ is_word_char(text[p + 1]))

\* re.search(r'\b' + re.escape(key) + r'\b', text)
re_search_word(key, text) ==
    \E i \in 0..(Len(text) - Len(key)) :
        /\ SubSeq(text, i + 1, i + Len(key)) = key
        /\ word_boundary(text, i)
        /\ word_boundary(text, i + Len(key))

is_multi_word(key) == \E i \in 1..Len(key) : key[i] \in {" ", "/", "."}

\* Every form, phrases too, looked for between word boundaries.
extract_skills_whole_words(text) ==
    IF text = <<>> THEN <<>>
    ELSE sorted({SKILL_ALIASES[k] : k \in {s \in DOMAIN SKILL_ALIASES :
                    /\ ~(Len(s) <= 1 /\ s \notin {<<"r">>, <<"c">>})
                    /\ re_search_word(s, str_lower(text))}})

\* The canonical tokens of the surface forms found in the text, sorted.  The
\* order in which the forms are tried does not change the set that is found.
extract_skills_from_text(text) ==
    IF text = <<>> THEN <<>>
    ELSE LET text_lower == str_lower(text)
             multi_word == {k \in DOMAIN SKILL_ALIASES : is_multi_word(k)}
             single_word == {k \in DOMAIN SKILL_ALIASES : ~is_multi_word(k)}
         IN  sorted({SKILL_ALIASES[k] : k \in {m \in multi_word : str_in(m, text_lower)}}
                    \cup
                    {SKILL_ALIASES[k] : k \in {s \in single_word :
                        /\ ~(Len(s) <= 1 /\ s \notin {<<"r">>, <<"c">>})
                        /\ re_search_word(s, text_lower)}})

\* ----------------------------------------------------- services/matcher.py

normalized_set(skills) == {normalize_skill(skills[i]) : i \in 1..Len(skills)}

\* round() where the code truncates.
score_skills_rounded(candidate_skills, job_skills) ==
    IF job_skills = <<>> THEN [score |-> 20, matched |-> <<>>, missing |-> <<>>]
    ELSE LET c_set == normalized_set(candidate_skills)
             j_set == normalized_set(job_skills)
             n == Cardinality(j_set)
         IN  [score |-> (Cardinality(c_set \cap j_set) * 80 + n) \div (2 * n),
              matched |-> sorted(c_set \cap j_set),
              missing |-> sorted(j_set \ c_set)]

\* (score 0..40, matched, missing); int(match_pct * 40) truncates, and on
\* these non-negative ratios truncation is the floor of 40 * |matched| / |j_set|.
_score_skills(candidate_skills, job_skills) ==
    IF job_skills = <<>> THEN [score |-> 20, matched |-> <<>>, missing |-> <<>>]
    ELSE LET c_set == normalized_set(candidate_skills)
             j_set == normalized_set(job_skills)
             matched == c_set \cap j_set
             missing == j_set \ c_set
         IN  [score |-> (Cardinality(matched) * 40) \div Cardinality(j_set),
              matched |-> sorted(matched),
              missing |-> sorted(missing)]

\* City -> region, in the dictionary's iteration order.
LOCATION_STATES ==
    << <<<<"h", "y", "d", "e", "r", "a", "b", "a", "d">>, <<"t", "e", "l", "a", "n", "g", "a", "n", "a">>>>,
       <<<<"b", "a", "n", "g", "a", "l", "o", "r", "e">>, <<"k", "a", "r", "n", "a", "t", "a", "k", "a">>>>,
       <<<<"b", "e", "n", "g", "a", "l", "u", "r", "u">>, <<"k", "a", "r", "n", "a", "t", "a", "k", "a">>>>,
       <<<<"m", "u", "m", "b", "a", "i">>, <<"m", "a", "h", "a", "r", "a", "s", "h", "t", "r", "a">>>>,
       <<<<"p", "u", "n", "e">>, <<"m", "a", "h", "a", "r", "a", "s", "h", "t", "r", "a">>>>,
       <<<<"d", "e", "l", "h", "i">>, <<"d", "e", "l", "h", "i", " ", "n", "c", "r">>>>,
       <<<<"d", "e", "l", "h", "i", " ", "n", "c", "r">>, <<"d", "e", "l", "h", "i", " ", "n", "c", "r">>>>,
       <<<<"n", "e", "w", " ", "d", "e", "l", "h", "i">>, <<"d", "e", "l", "h", "i", " ", "n", "c", "r">>>>,
       <<<<"g", "u", "r", "g", "a", "o", "n">>, <<"d", "e", "l", "h", "i", " ", "n", "c", "r">>>>,
       <<<<"g", "u", "r", "u", "g", "r", "a", "m">>, <<"d", "e", "l", "h", "i", " ", "n", "c", "r">>>>,
       <<<<"n", "o", "i", "d", "a">>, <<"d", "e", "l", "h", "i", " ", "n", "c", "r">>>>,
       <<<<"c", "h", "e", "n", "n", "a", "i">>, <<"t", "a", "m", "i", "l", " ", "n", "a", "d", "u">>>>,
       <<<<"k", "o", "l", "k", "a", "t", "a">>, <<"w", "e", "s", "t", " ", "b", "e", "n", "g", "a", "l">>>>,
       <<<<"a", "h", "m", "e", "d", "a", "b", "a", "d">>, <<"g", "u", "j", "a", "r", "a", "t">>>>,
       <<<<"r", "e", "m", "o", "t", "e">>, <<"r", "e", "m", "o", "t", "e">>>> >>

\* The region of the first city of the table that occurs in the location,
\* None when the location is empty or names no city of the table.
_get_state(location) ==
    IF location = <<>> THEN None
    ELSE LET loc == str_lower(str_strip(location))
             hits == {i \in 1..Len(LOCATION_STATES) : str_in(LOCATION_STATES[i][1], loc)}
         IN  IF hits = {} THEN None
             ELSE Some(LOCATION_STATES[CHOOSE i \in hits : \A k \in hits : i <= k][2])

\* `not x` for an Optional[str]: None and "" are both falsy.
falsy_str(o) == o = None \/ Val(o) = <<>>

lower_is(o, word) == ~falsy_str(o) /\ str_lower(Val(o)) = word

\* Containment of the preference in the job location only.
exact_match_one_way(cloc, job_loc) == str_in(cloc, job_loc)

\* `cloc in job_loc or job_loc in cloc`
exact_match(cloc, job_loc) == str_in(cloc, job_loc) \/ str_in(job_loc, cloc)

\* Lines 74-94: the comparison of the preferences with the job's location.
location_match(candidate_locations, job_location, job_location_type) ==
    LET candidate_locs == [i \in 1..Len(candidate_locations) |->
                               str_lower(str_strip(candidate_locations[i]))]
        job_loc == IF job_location = None THEN <<>>
                   ELSE str_lower(str_strip(Val(job_location)))
        job_state == _get_state(job_loc)
    IN  IF \E i \in 1..Len(candidate_locs) : exact_match(candidate_locs[i], job_loc)
        THEN [score |-> 20, reason |-> "Location: Exact match"]
        ELSE IF \E i \in 1..Len(candidate_locs) :
                    /\ _get_state(candidate_locs[i]) # None
                    /\ job_state # None
                    /\ _get_state(candidate_locs[i]) = job_state
        THEN [score |-> 15, reason |-> "Location: Same region"]
        ELSE IF /\ \E i \in 1..Len(candidate_locs) : candidate_locs[i] = <<"r", "e", "m", "o", "t", "e">>
                /\ lower_is(job_location_type, <<"h", "y", "b", "r", "i", "d">>)
        THEN [score |-> 12, reason |-> "Location: Hybrid role"]
        ELSE [score |-> 5, reason |-> "Location: Different"]

\* The no-preference check made before the remote check.
score_location_prefs_first(candidate_locations, job_location, job_location_type) ==
    IF falsy_str(job_location) /\ falsy_str(job_location_type)
    THEN [score |-> 10, reason |-> "Location: Not specified by employer"]
    ELSE IF candidate_locations = <<>>
    THEN [score |-> 10, reason |-> "Location: No preference specified"]
    ELSE IF lower_is(job_location_type, <<"r", "e", "m", "o", "t", "e">>)
    THEN [score |-> 20, reason |-> "Location: Remote position"]
    ELSE location_match(candidate_locations, job_location, job_location_type)

\* (score 0..20, reason).  The reason is the text before the job's location.
_score_location(candidate_locations, job_location, job_location_type) ==
    IF falsy_str(job_location) /\ falsy_str(job_location_type)
    THEN [score |-> 10, reason |-> "Location: Not specified by employer"]
    ELSE IF lower_is(job_location_type, <<"r", "e", "m", "o", "t", "e">>)
    THEN [score |-> 20, reason |-> "Location: Remote position"]
    ELSE IF candidate_locations = <<>>
    THEN [score |-> 10, reason |-> "Location: No preference specified"]
    ELSE location_match(candidate_locations, job_location, job_location_type)

\* `a or b` on Optional[int]: the first operand unless it is None or 0.
or_int(a, b) == IF a # None /\ Val(a) # 0 THEN Val(a) ELSE b

\* The operands of `or` swapped: the floor taken before the ceiling.
score_salary_floor_first(candidate_min, job_min, job_max) ==
    IF candidate_min = None \/ (job_min = None /\ job_max = None)
    THEN [score |-> 8, reason |-> "Salary: Not enough data to compare"]
    ELSE LET job_top == or_int(job_min, or_int(job_max, 0))
         IN  IF job_top >= Val(candidate_min)
             THEN [score |-> 15, reason |-> "Salary: Meets minimum requirement"]
             ELSE IF 5 * job_top >= 4 * Val(candidate_min)
             THEN [score |-> 10, reason |-> "Salary: Close to minimum"]
             ELSE [score |-> 3, reason |-> "Salary: Below minimum"]

\* (score 0..15, reason).  job_top >= candidate_min * 0.8 is, on integers,
\* 5 * job_top >= 4 * candidate_min.
_score_salary(candidate_min, job_min, job_max) ==
    IF candidate_min = None \/ (job_min = None /\ job_max = None)
    THEN [score |-> 8, reason |-> "Salary: Not enough data to compare"]
    ELSE LET job_top == or_int(job_max, or_int(job_min, 0))
         IN  IF job_top >= Val(candidate_min)
             THEN [score |-> 15, reason |-> "Salary: Meets minimum requirement"]
             ELSE IF 5 * job_top >= 4 * Val(candidate_min)
             THEN [score |-> 10, reason |-> "Salary: Close to minimum"]
             ELSE [score |-> 3, reason |-> "Salary: Below minimum"]

\* (score 0..15, reason).
_score_experience(candidate_years, job_min, job_max) ==
    IF candidate_years = None \/ (job_min = None /\ job_max = None)
    THEN [score |-> 8, reason |-> "Experience: Not enough data to compare"]
    ELSE LET years == Val(candidate_years)
             jmin == or_int(job_min, 0)
             jmax == or_int(job_max, 99)
         IN  IF jmin <= years /\ years <= jmax
             THEN [score |-> 15, reason |-> "Experience: matches requirement"]
             ELSE IF years >= jmin - 1 /\ years <= jmax + 1
             THEN [score |-> 10, reason |-> "Experience: Close match"]
             ELSE IF years > jmax
             THEN [score |-> 7, reason |-> "Experience: Overqualified"]
             ELSE [score |-> 3, reason |-> "Experience: Underqualified"]

\* A posted_at column value: None, or Some of
\*   [iso |-> FALSE]           text that datetime.fromisoformat rejects, "" included
\*   [iso |-> TRUE, t |-> h]    an ISO timestamp, the instant h hours on the clock.
\* timedelta.days is the floor of the difference in days.
days_ago_of(posted_at, clock) == (clock - Val(posted_at).t) \div 24

\* The thresholds read as strict (< 1, < 7, < 30).
score_recency_strict(posted_at, clock) ==
    IF posted_at = None \/ ~Val(posted_at).iso
    THEN [score |-> 5, reason |-> "Recency: Unknown posting date"]
    ELSE LET days_ago == days_ago_of(posted_at, clock)
         IN  IF days_ago < 1 THEN [score |-> 10, reason |-> "Recency: Posted today"]
             ELSE IF days_ago < 7 THEN [score |-> 8, reason |-> "Recency: Posted days ago"]
             ELSE IF days_ago < 30 THEN [score |-> 5, reason |-> "Recency: Posted days ago"]
             ELSE [score |-> 2, reason |-> "Recency: Posted days ago"]

\* (score 0..10, reason); clock is datetime.now().
_score_recency(posted_at, clock) ==
    IF posted_at = None \/ ~Val(posted_at).iso
    THEN [score |-> 5, reason |-> "Recency: Unknown posting date"]
    ELSE LET days_ago == days_ago_of(posted_at, clock)
         IN  IF days_ago <= 1 THEN [score |-> 10, reason |-> "Recency: Posted today"]
             ELSE IF days_ago <= 7 THEN [score |-> 8, reason |-> "Recency: Posted days ago"]
             ELSE IF days_ago <= 30 THEN [score |-> 5, reason |-> "Recency: Posted days ago"]
             ELSE [score |-> 2, reason |-> "Recency: Posted days ago"]

\* ------------------------------------------------------------ the job store

\* A stored skills column (TEXT): None, or Some of
\*   [json |-> "empty"]                   the empty string
\*   [json |-> "array", items |-> seq]    a JSON array of strings
\*   [json |-> "invalid"]                 text that is not JSON
\*   [json |-> "number"]                  valid JSON that is a non-zero number
\* is_active is the flag the INSERT is given.
JobCatalogue ==
    { [id |-> "j1", is_active |-> TRUE,
       skills |-> Some([json |-> "array", items |-> <<<<"p", "y", "t", "h", "o", "n">>, <<"s", "q", "l">>, <<"d", "o", "c", "k", "e", "r">>>>]),
       location |-> Some(<<"P", "u", "n", "e">>), location_type |-> Some(<<"o", "n", "s", "i", "t", "e">>),
       salary_min |-> Some(40000), salary_max |-> Some(60000),
       experience_min |-> Some(2), experience_max |-> Some(5),
       posted_at |-> Some([iso |-> TRUE, t |-> -2])],
      [id |-> "j2", is_active |-> TRUE,
       skills |-> None, location |-> None, location_type |-> None,
       salary_min |-> None, salary_max |-> None,
       experience_min |-> None, experience_max |-> None,
       posted_at |-> None],
      [id |-> "j3", is_active |-> TRUE,
       skills |-> Some([json |-> "array", items |-> <<<<"k", "u", "b", "e", "r", "n", "e", "t", "e", "s">>>>]),
       location |-> Some(<<"C", "h", "e", "n", "n", "a", "i">>), location_type |-> Some(<<"o", "n", "s", "i", "t", "e">>),
       salary_min |-> Some(10000), salary_max |-> Some(20000),
       experience_min |-> Some(8), experience_max |-> Some(10),
       posted_at |-> Some([iso |-> TRUE, t |-> -960])],
      [id |-> "j4", is_active |-> TRUE,
       skills |-> Some([json |-> "array", items |-> <<<<"P", "y", "t", "h", "o", "n">>, <<"S", "Q", "L">>>>]),
       location |-> Some(<<"A", "n", "y", "w", "h", "e", "r", "e">>), location_type |-> Some(<<"R", "e", "m", "o", "t", "e">>),
       salary_min |-> Some(80000), salary_max |-> Some(90000),
       experience_min |-> Some(1), experience_max |-> Some(4),
       posted_at |-> Some([iso |-> TRUE, t |-> -30])],
      [id |-> "j5", is_active |-> FALSE,
       skills |-> Some([json |-> "array", items |-> <<<<"p", "y", "t", "h", "o", "n">>>>]),
       location |-> Some(<<"P", "u", "n", "e">>), location_type |-> Some(<<"o", "n", "s", "i", "t", "e">>),
       salary_min |-> Some(70000), salary_max |-> Some(95000),
       experience_min |-> Some(3), experience_max |-> Some(3),
       posted_at |-> Some([iso |-> TRUE, t |-> -1])],
      [id |-> "j6", is_active |-> TRUE,
       skills |-> Some([json |-> "invalid"]),
       location |-> Some(<<"M", "u", "m", "b", "a", "i">>), location_type |-> Some(<<"h", "y", "b", "r", "i", "d">>),
       salary_min |-> Some(45000), salary_max |-> None,
       experience_min |-> None, experience_max |-> Some(2),
       posted_at |-> Some([iso |-> FALSE])],
      [id |-> "j7", is_active |-> TRUE,
       skills |-> Some([json |-> "number"]),
       location |-> None, location_type |-> None,
       salary_min |-> None, salary_max |-> None,
       experience_min |-> None, experience_max |-> None,
       posted_at |-> None] }

opt_list(o) == IF o = None THEN <<>> ELSE Val(o)

\* The candidate profiles a caller sends.
ProfileCatalogue ==
    { [skills |-> Some(<<<<"P", "y", "t", "h", "o", "n">>, <<"s", "q", "l">>>>), resume_text |-> None,
       experience_years |-> Some(3), preferred_locations |-> Some(<<<<"P", "u", "n", "e">>>>),
       salary_min |-> Some(50000), job_preferences |-> None],
      [skills |-> None, resume_text |-> None,
       experience_years |-> None, preferred_locations |-> None,
       salary_min |-> None, job_preferences |-> Some(<<"r", "e", "m", "o", "t", "e", " ", "o", "n", "l", "y">>)],
      [skills |-> Some(<<<<" ", "p", "y", " ">>>>), resume_text |-> Some(<<"S", "Q", "L", ",", " ", "C", "+", "+">>),
       experience_years |-> Some(0), preferred_locations |-> Some(<<<<"R", "e", "m", "o", "t", "e">>>>),
       salary_min |-> None, job_preferences |-> None] }

\* The sequences that list each element of S once: list(set(...)) keeps no
\* order the code controls.
Orderings(S) == {s \in [1..Cardinality(S) -> S] : Range(s) = S}

\* The explicit and the mined skills joined through a set, none normalized.
candidate_skills_joined(skills, resume_text) ==
    IF resume_text # None /\ Val(resume_text) # <<>>
    THEN Orderings(Range(opt_list(skills) \o extract_skills_from_text(Val(resume_text))))
    ELSE {opt_list(skills)}

\* Lines 168-174: the candidate skill lists match_jobs may end up with.
candidate_skills_of(skills, resume_text) ==
    IF resume_text # None /\ Val(resume_text) # <<>>
    THEN Orderings(Range(normalize_skills(
             opt_list(skills) \o extract_skills_from_text(Val(resume_text)))))
    ELSE {normalize_skills(opt_list(skills))}

\* json.loads of the stored text, after `row["skills"] if row["skills"] else "[]"`;
\* a JSONDecodeError gives [].
job_skills_of(skills) ==
    IF skills = None \/ Val(skills).json \in {"empty", "invalid"}
    THEN [py |-> "list", items |-> <<>>]
    ELSE IF Val(skills).json = "array"
    THEN [py |-> "list", items |-> Val(skills).items]
    ELSE [py |-> "int"]

\* `x` in a condition, for an Optional[int]: None and 0 are falsy.
truthy_int(o) == o # None /\ Val(o) # 0

\* The pair of thousands shown as "min-max" or "min+", None when no floor.
salary_range_of(row) ==
    IF truthy_int(row.salary_min) /\ truthy_int(row.salary_max)
    THEN Some([min |-> Val(row.salary_min) \div 1000, max |-> Val(row.salary_max) \div 1000])
    ELSE IF truthy_int(row.salary_min)
    THEN Some([min |-> Val(row.salary_min) \div 1000])
    ELSE None

\* The sum without the recency component.
total_score_no_recency(skill_score, loc_score, sal_score, exp_score, rec_score) ==
    skill_score + loc_score + sal_score + exp_score

total_score_of(skill_score, loc_score, sal_score, exp_score, rec_score) ==
    skill_score + loc_score + sal_score + exp_score + rec_score

\* The skills summary added whenever the job lists skills.
reasons_skills_always(candidate_skills, job_skills, matched_skills, loc_reason, exp_reason, sal_reason, rec_reason) ==
    (IF job_skills # <<>>
     THEN << [component |-> "skills", shown |-> Take(matched_skills, 5),
              matched |-> Len(matched_skills), required |-> Len(job_skills)] >>
     ELSE <<>>)
    \o << [component |-> "location", text |-> loc_reason],
          [component |-> "experience", text |-> exp_reason],
          [component |-> "salary", text |-> sal_reason],
          [component |-> "recency", text |-> rec_reason] >>

\* Lines 205-211: the reasons, the skills summary first when there is one.
reasons_of(candidate_skills, job_skills, matched_skills, loc_reason, exp_reason, sal_reason, rec_reason) ==
    (IF candidate_skills # <<>> /\ job_skills # <<>>
     THEN << [component |-> "skills", shown |-> Take(matched_skills, 5),
              matched |-> Len(matched_skills), required |-> Len(job_skills)] >>
     ELSE <<>>)
    \o << [component |-> "location", text |-> loc_reason],
          [component |-> "experience", text |-> exp_reason],
          [component |-> "salary", text |-> sal_reason],
          [component |-> "recency", text |-> rec_reason] >>

\* A scoring pass that lifts every job to 100 for a caller who states
\* preferences.
scored_job_for_preferences(r, row, clock) ==
    LET job_skills == job_skills_of(row.skills).items
        sk == _score_skills(r.candidate_skills, job_skills)
        loc == _score_location(opt_list(r.preferred_locations), row.location,
                               row.location_type)
        sal == _score_salary(r.salary_min, row.salary_min, row.salary_max)
        exp == _score_experience(r.experience_years, row.experience_min,
                                 row.experience_max)
        rec == _score_recency(row.posted_at, clock)
    IN  [id |-> row.id,
         location |-> row.location,
         salary_range |-> salary_range_of(row),
         match_score |-> IF r.job_preferences # None /\ Val(r.job_preferences) # <<>>
                         THEN 100
                         ELSE total_score_of(sk.score, loc.score, sal.score,
                                             exp.score, rec.score),
         match_reasons |-> reasons_of(r.candidate_skills, job_skills, sk.matched,
                                      loc.reason, exp.reason, sal.reason, rec.reason),
         skills_match |-> sk.matched,
         skills_missing |-> Take(sk.missing, 5)]

\* One pass of the scoring loop (lines 190-232) over a row whose skills decode
\* to a list.
scored_job(r, row, clock) ==
    LET job_skills == job_skills_of(row.skills).items
        sk == _score_skills(r.candidate_skills, job_skills)
        loc == _score_location(opt_list(r.preferred_locations), row.location,
                               row.location_type)
        sal == _score_salary(r.salary_min, row.salary_min, row.salary_max)
        exp == _score_experience(r.experience_years, row.experience_min,
                                 row.experience_max)
        rec == _score_recency(row.posted_at, clock)
    IN  [id |-> row.id,
         location |-> row.location,
         salary_range |-> salary_range_of(row),
         match_score |-> total_score_of(sk.score, loc.score, sal.score,
                                        exp.score, rec.score),
         match_reasons |-> reasons_of(r.candidate_skills, job_skills, sk.matched,
                                      loc.reason, exp.reason, sal.reason, rec.reason),
         skills_match |-> sk.matched,
         skills_missing |-> Take(sk.missing, 5)]

\* Placing a job before the jobs of equal score (ties come out reversed).
insert_before_ties(sorted_jobs, job) ==
    LET k == Cardinality({i \in 1..Len(sorted_jobs) :
                              sorted_jobs[i].match_score > job.match_score})
    IN  SubSeq(sorted_jobs, 1, k) \o <<job>> \o SubSeq(sorted_jobs, k + 1, Len(sorted_jobs))

\* list.sort is stable, also under reverse=True: a job goes after every job
\* already placed whose score is at least its own.
insert_by_score(sorted_jobs, job) ==
    LET k == Cardinality({i \in 1..Len(sorted_jobs) :
                              sorted_jobs[i].match_score >= job.match_score})
    IN  SubSeq(sorted_jobs, 1, k) \o <<job>> \o SubSeq(sorted_jobs, k + 1, Len(sorted_jobs))

RECURSIVE sort_from(_, _)
sort_from(todo, sorted_jobs) ==
    IF todo = <<>> THEN sorted_jobs
    ELSE sort_from(Tail(todo), insert_by_score(sorted_jobs, Head(todo)))

\* scored_jobs.sort(key=match_score, reverse=True)
sort_by_score_desc(scored_jobs) == sort_from(scored_jobs, <<>>)

\* The count taken over the returned page.
match_count_of_page(scored_jobs, top_jobs) ==
    Cardinality({i \in 1..Len(top_jobs) : top_jobs[i].match_score >= 30})

\* len([j for j in scored_jobs if j["match_score"] >= 30])
match_count_of(scored_jobs, top_jobs) ==
    Cardinality({i \in 1..Len(scored_jobs) : scored_jobs[i].match_score >= 30})

\* SELECT ... FROM jobs j ... WHERE j.is_active = 1, in rowid order.
active_rows(table) == SelectSeq(table, LAMBDA row : row.is_active)

\* match_jobs from the fetch on: score every row, sort, cut to the limit.
match_result(r, rows, clock) ==
    IF \E i \in 1..Len(rows) : job_skills_of(rows[i].skills).py # "list"
    THEN [status |-> "raised", error |-> "TypeError"]
    ELSE LET scored_jobs == [i \in 1..Len(rows) |-> scored_job(r, rows[i], clock)]
             ranked == sort_by_score_desc(scored_jobs)
             top_jobs == Take(ranked, r.limit)
         IN  [status |-> "ok",
              match_count |-> match_count_of(ranked, top_jobs),
              jobs |-> top_jobs,
              extracted_skills |-> r.candidate_skills]

\* ------------------------------------------------------------ match_jobs

Idle == [pc |-> "idle"]
NoResult == [status |-> "none"]
NoCall == [fn |-> "none"]

\* The requests the service handles at once, and one that has not arrived.
Invocations == {"a", "b"}
NotStarted == [op |-> "none", pc |-> "none"]

\* The module as imported: no connection opened, get_db and close_db not yet
\* called.  A connection is the number of its aiosqlite.connect.
NoConnection ==
    /\ _db = None
    /\ conn = [opened |-> 0, closed |-> {}, closer |-> "idle",
               caller |-> [i \in Invocations |-> [pc |-> "idle"]]]

\* Nothing stored beside the jobs and no request under way.
ServiceIdle ==
    /\ NoConnection
    /\ companies = {}
    /\ fts = {}
    /\ sessions = <<>>
    /\ inv = [i \in Invocations |-> NotStarted]

\* seed_database / fetch_real_jobs: INSERT OR IGNORE INTO jobs.  The id is the
\* primary key, so a row whose id is already stored is ignored.
InsertJob(row) ==
    /\ Len(jobs) < MaxJobs
    /\ \A i \in 1..Len(jobs) : jobs[i].id # row.id
    /\ jobs' = Append(jobs, row)
    /\ UNCHANGED <<now, req, result, call, ret, service>>

\* match_jobs up to `await get_db()` (lines 166-176): the candidate skills.
MatchJobsCall(profile, limit) ==
    /\ req.pc \in {"idle", "done"}
    /\ \E candidate_skills \in candidate_skills_of(profile.skills, profile.resume_text) :
           req' = [pc |-> "fetch",
                   experience_years |-> profile.experience_years,
                   preferred_locations |-> profile.preferred_locations,
                   salary_min |-> profile.salary_min,
                   job_preferences |-> profile.job_preferences,
                   limit |-> limit,
                   candidate_skills |-> candidate_skills,
                   rows |-> <<>>,
                   clock |-> now]
    /\ result' = NoResult
    /\ UNCHANGED <<jobs, now, call, ret, service>>

\* match_jobs from the SELECT to the return (lines 179-244); the scoring loop
\* does not suspend.
MatchJobsRun ==
    /\ req.pc = "fetch"
    /\ LET rows == active_rows(jobs)
       IN  /\ req' = [req EXCEPT !.pc = "done", !.rows = rows, !.clock = now]
           /\ result' = match_result(req, rows, now)
    /\ UNCHANGED <<jobs, now, call, ret, service>>

Init ==
    /\ jobs = <<>>
    /\ now = 0
    /\ req = Idle
    /\ result = NoResult
    /\ call = NoCall
    /\ ret = None
    /\ ServiceIdle

Next ==
    \/ \E row \in JobCatalogue : InsertJob(row)
    \/ \E profile \in ProfileCatalogue, limit \in 1..MaxLimit : MatchJobsCall(profile, limit)
    \/ MatchJobsRun

Spec == Init /\ [][Next]_vars

\* ------------------------------------------- the scoring functions, alone

Quiet == jobs = <<>> /\ now = 0 /\ req = Idle /\ result = NoResult /\ ServiceIdle

OptInts(S) == {None} \cup {Some(n) : n \in S}

\* A stored (floor, ceiling) pair: each nullable, the floor not above the
\* ceiling (the writers store min(...)/max(...) and fixed level ranges).
Ranges(S) ==
    {p \in OptInts(S) \X OptInts(S) :
        p[1] # None /\ p[2] # None => Val(p[1]) <= Val(p[2])}

SkillTokens == {<<"P", "y", "t", "h", "o", "n">>, <<" ", "p", "y", " ">>, <<"s", "q", "l">>, <<"d", "o", "c", "k", "e", "r">>}

SkillsInit ==
    /\ Quiet
    /\ ret = None
    /\ call \in {[fn |-> "_score_skills", candidate_skills |-> c, job_skills |-> j] :
                   c \in SeqsUpTo(SkillTokens, MaxCandSkills),
                   j \in SeqsUpTo(SkillTokens, MaxJobSkills)}

ScoreSkills ==
    /\ call.fn = "_score_skills" /\ ret = None
    /\ ret' = Some(_score_skills(call.candidate_skills, call.job_skills))
    /\ UNCHANGED <<jobs, now, req, result, call, service>>

SkillsSpec == SkillsInit /\ [][ScoreSkills]_vars

JobLocations == {None, Some(<<>>), Some(<<"P", "u", "n", "e">>), Some(<<"N", "a", "v", "i", " ", "M", "u", "m", "b", "a", "i">>), Some(<<"B", "e", "n", "g", "a", "l", "u", "r", "u">>),
                 Some(<<"R", "e", "m", "o", "t", "e">>), Some(<<"G", "o", "a">>)}
LocationTypes == {None, Some(<<>>), Some(<<"r", "e", "m", "o", "t", "e">>), Some(<<"R", "e", "m", "o", "t", "e">>), Some(<<"h", "y", "b", "r", "i", "d">>),
                  Some(<<"H", "y", "b", "r", "i", "d">>), Some(<<"o", "n", "s", "i", "t", "e">>)}
PreferredLocations == {<<"p", "u", "n", "e">>, <<" ", "P", "u", "n", "e", " ", "C", "i", "t", "y", " ">>, <<"m", "u", "m", "b", "a", "i">>, <<"B", "a", "n", "g", "a", "l", "o", "r", "e">>, <<"R", "e", "m", "o", "t", "e">>, <<"K", "o", "c", "h", "i">>, <<>>}

LocationInit ==
    /\ Quiet
    /\ ret = None
    /\ call \in {[fn |-> "_score_location", candidate_locations |-> c,
                  job_location |-> l, job_location_type |-> t] :
                   c \in SeqsUpTo(PreferredLocations, MaxPrefs),
                   l \in JobLocations, t \in LocationTypes}

ScoreLocation ==
    /\ call.fn = "_score_location" /\ ret = None
    /\ ret' = Some(_score_location(call.candidate_locations, call.job_location,
                                   call.job_location_type))
    /\ UNCHANGED <<jobs, now, req, result, call, service>>

LocationSpec == LocationInit /\ [][ScoreLocation]_vars

SalaryInit ==
    /\ Quiet
    /\ ret = None
    /\ call \in {[fn |-> "_score_salary", candidate_min |-> c,
                  job_min |-> p[1], job_max |-> p[2]] :
                   c \in OptInts(-1..MaxSalary), p \in Ranges(0..MaxSalary)}

ScoreSalary ==
    /\ call.fn = "_score_salary" /\ ret = None
    /\ ret' = Some(_score_salary(call.candidate_min, call.job_min, call.job_max))
    /\ UNCHANGED <<jobs, now, req, result, call, service>>

SalarySpec == SalaryInit /\ [][ScoreSalary]_vars

ExperienceInit ==
    /\ Quiet
    /\ ret = None
    /\ call \in {[fn |-> "_score_experience", candidate_years |-> c,
                  job_min |-> p[1], job_max |-> p[2]] :
                   c \in OptInts((-1..MaxYears) \cup {99, 100, 101}),
                   p \in Ranges(0..MaxYears)}

ScoreExperience ==
    /\ call.fn = "_score_experience" /\ ret = None
    /\ ret' = Some(_score_experience(call.candidate_years, call.job_min, call.job_max))
    /\ UNCHANGED <<jobs, now, req, result, call, service>>

ExperienceSpec == ExperienceInit /\ [][ScoreExperience]_vars

\* A posting `days` whole days and `hours` more hours before the clock.
RecencyInit ==
    /\ Quiet
    /\ ret = None
    /\ call \in {[fn |-> "_score_recency", posted_at |-> p, clock |-> 0, days |-> None] :
                   p \in {None, Some([iso |-> FALSE])}}
            \cup {[fn |-> "_score_recency",
                   posted_at |-> Some([iso |-> TRUE, t |-> 0 - (24 * d + h)]),
                   clock |-> 0, days |-> Some(d)] :
                   d \in (-1)..MaxDays, h \in {0, 1, 23}}

ScoreRecency ==
    /\ call.fn = "_score_recency" /\ ret = None
    /\ ret' = Some(_score_recency(call.posted_at, call.clock))
    /\ UNCHANGED <<jobs, now, req, result, call, service>>

RecencySpec == RecencyInit /\ [][ScoreRecency]_vars

\* One pass of the scoring loop: a candidate (as match_jobs holds it after
\* normalising the skills) against one stored row.
ScoreInit ==
    /\ Quiet
    /\ ret = None
    /\ call \in {[fn |-> "scored_job",
                  r |-> [candidate_skills |-> cs, experience_years |-> ey,
                         preferred_locations |-> pl, salary_min |-> sm],
                  row |-> [id |-> "j0", is_active |-> TRUE, skills |-> sk,
                           location |-> lo, location_type |-> lt,
                           salary_min |-> sal[1], salary_max |-> sal[2],
                           experience_min |-> ex[1], experience_max |-> ex[2],
                           posted_at |-> po],
                  clock |-> 0] :
                   cs \in {<<>>, <<<<"p", "y", "t", "h", "o", "n">>>>, <<<<"p", "y", "t", "h", "o", "n">>, <<"s", "q", "l">>>>},
                   ey \in {None, Some(3)},
                   pl \in {None, Some(<<>>), Some(<<<<"P", "u", "n", "e">>>>), Some(<<<<"r", "e", "m", "o", "t", "e">>>>)},
                   sm \in {None, Some(50000)},
                   sk \in {None, Some([json |-> "array", items |-> <<<<"P", "y", "t", "h", "o", "n">>, <<"S", "Q", "L">>>>]),
                           Some([json |-> "array", items |-> <<<<"d", "o", "c", "k", "e", "r">>>>])},
                   lo \in {None, Some(<<"P", "u", "n", "e">>), Some(<<"C", "h", "e", "n", "n", "a", "i">>)},
                   lt \in {None, Some(<<"R", "e", "m", "o", "t", "e">>), Some(<<"h", "y", "b", "r", "i", "d">>)},
                   sal \in {<<None, None>>, <<Some(40000), Some(60000)>>,
                            <<Some(10000), Some(20000)>>},
                   ex \in {<<None, None>>, <<Some(2), Some(5)>>, <<Some(8), Some(10)>>},
                   po \in {None, Some([iso |-> TRUE, t |-> -2]),
                           Some([iso |-> TRUE, t |-> -960])}}

ScoreJob ==
    /\ call.fn = "scored_job" /\ ret = None
    /\ ret' = Some(scored_job(call.r, call.row, call.clock))
    /\ UNCHANGED <<jobs, now, req, result, call, service>>

ScoreSpec == ScoreInit /\ [][ScoreJob]_vars

\* ------------------------------------------------------------- properties

Min(a, b) == IF a < b THEN a ELSE b

\* The jobs an invocation scored: its fetched rows, scored, in retrieval order.
pool_of(r) == [i \in 1..Len(r.rows) |-> scored_job(r, r.rows[i], r.clock)]

index_of(pool, id) == CHOOSE i \in 1..Len(pool) : pool[i].id = id

\* C1: the jobs list of a match result is the first min(limit, n) jobs of the
\* pool of all n active jobs in stable descending order of match_score: its
\* length is min(limit, n), every entry is a scored pool job, scores do not
\* increase along the list, jobs of equal score keep their retrieval order,
\* and a job left out has no higher score than a listed job (and, at an equal
\* score, was retrieved after it).
C1_RankedPrefix ==
    result.status = "ok" =>
        LET pool == pool_of(req)
            out == result.jobs
            at(k) == index_of(pool, out[k].id)
            left_out == {i \in 1..Len(pool) : \A k \in 1..Len(out) : out[k].id # pool[i].id}
        IN  /\ \E n \in 0..Len(jobs) : req.rows = active_rows(SubSeq(jobs, 1, n))
            /\ Len(out) = Min(req.limit, Len(pool))
            /\ \A k \in 1..Len(out) : \E i \in 1..Len(pool) : pool[i] = out[k]
            /\ \A k \in 1..(Len(out) - 1) : out[k].match_score >= out[k + 1].match_score
            /\ \A k, l \in 1..Len(out) :
                   k < l /\ out[k].match_score = out[l].match_score => at(k) < at(l)
            /\ \A i \in left_out, k \in 1..Len(out) :
                   /\ pool[i].match_score <= out[k].match_score
                   /\ pool[i].match_score = out[k].match_score => at(k) < i

\* A result that lists two jobs of equal score and leaves a third active job
\* out.
C1_Witness ==
    /\ result.status = "ok"
    /\ Len(result.jobs) = 2
    /\ Len(req.rows) = 3
    /\ result.jobs[1].match_score = result.jobs[2].match_score

\* A result cut between two jobs of equal score, with an inactive row stored.
C1_WitnessCutTie ==
    /\ result.status = "ok"
    /\ Len(result.jobs) = 1
    /\ Len(req.rows) = 2
    /\ pool_of(req)[2].match_score = result.jobs[1].match_score
    /\ \E i \in 1..Len(jobs) : ~jobs[i].is_active

\* C2: match_count is the number of jobs of the whole active pool that score
\* at least 30, whatever the limit: it may exceed the length of the returned
\* list and it may be smaller.
C2_MatchCount ==
    result.status = "ok" =>
        LET pool == pool_of(req)
        IN  result.match_count =
                Cardinality({i \in 1..Len(pool) : pool[i].match_score >= 30})

\* More jobs clear 30 than the limit lets through.
C2_Witness ==
    /\ result.status = "ok"
    /\ result.match_count > Len(result.jobs)

\* The limit is filled with a job scoring below 30.
C2_WitnessBelow ==
    /\ result.status = "ok"
    /\ result.match_count < Len(result.jobs)

\* C3: the match_score of a scored job is the sum of its five sub-scores
\* (skills, location, salary, experience, recency), none of them negative,
\* and lies in 3..100.
C3_TotalScore ==
    ret # None =>
        LET r == call.r
            row == call.row
            skills == _score_skills(r.candidate_skills, job_skills_of(row.skills).items).score
            location == _score_location(opt_list(r.preferred_locations), row.location,
                                        row.location_type).score
            salary == _score_salary(r.salary_min, row.salary_min, row.salary_max).score
            experience == _score_experience(r.experience_years, row.experience_min,
                                            row.experience_max).score
            recency == _score_recency(row.posted_at, call.clock).score
        IN  /\ Val(ret).match_score = skills + location + salary + experience + recency
            /\ \A s \in {skills, location, salary, experience, recency} : s >= 0
            /\ Val(ret).match_score \in 3..100

\* Every component at its lowest: 0 + 5 + 3 + 3 + 2.
C3_Witness ==
    /\ ret # None
    /\ Val(ret).match_score = 13

\* Every component at its highest: 40 + 20 + 15 + 15 + 10.
C3_WitnessTop ==
    /\ ret # None
    /\ Val(ret).match_score = 100

\* C4: with no job skills the skills sub-score is 20 and matched and missing
\* are empty; otherwise matched is the normalised candidate set intersected
\* with the normalised job set, missing is the job set less the candidate
\* set, and the score is the floor of 40 * |matched| / |job set|, within
\* 0..40.  Python and sql against Python, sql and docker gives 26.
C4_SkillScore ==
    ret # None =>
        LET c_set == {normalize_skill(s) : s \in Range(call.candidate_skills)}
            j_set == {normalize_skill(s) : s \in Range(call.job_skills)}
            got == Val(ret)
        IN  /\ call.job_skills = <<>> =>
                   got.score = 20 /\ got.matched = <<>> /\ got.missing = <<>>
            /\ call.job_skills # <<>> =>
                   /\ Range(got.matched) = c_set \cap j_set
                   /\ Range(got.missing) = j_set \ c_set
                   /\ Len(got.matched) = Cardinality(c_set \cap j_set)
                   /\ Len(got.missing) = Cardinality(j_set \ c_set)
                   /\ got.score * Cardinality(j_set) <= 40 * Cardinality(c_set \cap j_set)
                   /\ 40 * Cardinality(c_set \cap j_set) < (got.score + 1) * Cardinality(j_set)
            /\ got.score \in 0..40
            /\ (/\ call.candidate_skills = <<<<"P", "y", "t", "h", "o", "n">>, <<"s", "q", "l">>>>
                /\ call.job_skills = <<<<"P", "y", "t", "h", "o", "n">>, <<"s", "q", "l">>, <<"d", "o", "c", "k", "e", "r">>>>) =>
                   /\ got.score = 26
                   /\ Range(got.matched) = {<<"p", "y", "t", "h", "o", "n">>, <<"s", "q", "l">>}
                   /\ Range(got.missing) = {<<"d", "o", "c", "k", "e", "r">>}

C4_Witness ==
    /\ ret # None
    /\ call.candidate_skills = <<<<"P", "y", "t", "h", "o", "n">>, <<"s", "q", "l">>>>
    /\ call.job_skills = <<<<"P", "y", "t", "h", "o", "n">>, <<"s", "q", "l">>, <<"d", "o", "c", "k", "e", "r">>>>
    /\ Val(ret).score = 26

Abs(n) == IF n < 0 THEN 0 - n ELSE n

\* C5: the experience sub-score is 8 when the candidate's years or both job
\* bounds are null; otherwise, with the floor 0 only for a null floor and the
\* ceiling 99 only for a null ceiling, 15 inside [floor, ceiling], else 10
\* within one year of a bound, else 7 above the ceiling, else 3.
C5_ExperienceAsClaimed ==
    ret # None =>
        Val(ret).score =
            IF call.candidate_years = None \/ (call.job_min = None /\ call.job_max = None)
            THEN 8
            ELSE LET years == Val(call.candidate_years)
                     f == IF call.job_min = None THEN 0 ELSE Val(call.job_min)
                     c == IF call.job_max = None THEN 99 ELSE Val(call.job_max)
                 IN  IF f <= years /\ years <= c THEN 15
                     ELSE IF Abs(years - f) <= 1 \/ Abs(years - c) <= 1 THEN 10
                     ELSE IF years > c THEN 7
                     ELSE 3

C8_RemoteScores20 ==
    (/\ ret # None
     /\ call.job_location_type # None
     /\ str_lower(Val(call.job_location_type)) = <<"r", "e", "m", "o", "t", "e">>)
        => Val(ret).score = 20

\* A job typed "Remote" scored for a candidate without preferences.
C8_Witness ==
    /\ ret # None
    /\ call.job_location_type = Some(<<"R", "e", "m", "o", "t", "e">>)
    /\ call.candidate_locations = <<>>
    /\ call.job_location = None
    /\ Val(ret).score = 20

\* C9: by the whole days since the posting, the recency sub-score is 5 for a
\* missing or unparsable timestamp, 10 up to 1 day, 8 up to 7 days, 5 up to
\* 30 days and 2 beyond; an older posting never scores higher.
C9_RecencyScore ==
    ret # None =>
        LET score == Val(ret).score
        IN  IF call.days = None THEN score = 5
            ELSE LET d == Val(call.days)
                 IN  /\ score = IF d <= 1 THEN 10
                                ELSE IF d <= 7 THEN 8
                                ELSE IF d <= 30 THEN 5
                                ELSE 2
                     /\ (d = 0 => score = 10) /\ (d = 10 => score = 5)
                     /\ \A older \in d..(MaxDays + 1) :
                            _score_recency(Some([iso |-> TRUE, t |-> call.clock - 24 * older]),
                                           call.clock).score <= score

\* A job posted ten days and some hours ago.
C9_Witness ==
    /\ ret # None
    /\ call.fn = "_score_recency"
    /\ call.days = Some(10)
    /\ Val(ret).score = 5

components_of(job) == [i \in 1..Len(job.match_reasons) |-> job.match_reasons[i].component]

\* C10: every job of a match result carries one reason per component in the
\* order skills summary, location, experience, salary, recency, the skills
\* summary being there exactly when the candidate skill set and the job's
\* skill list are both non-empty.
C10_ReasonOrder ==
    result.status = "ok" =>
        \A k \in 1..Len(result.jobs) :
            LET job == result.jobs[k]
                row == CHOOSE row \in Range(req.rows) : row.id = job.id
                job_skills == job_skills_of(row.skills).items
            IN  components_of(job) =
                    IF req.candidate_skills # <<>> /\ job_skills # <<>>
                    THEN <<"skills", "location", "experience", "salary", "recency">>
                    ELSE <<"location", "experience", "salary", "recency">>

\* A result with a job that has the skills summary and one that has not.
C10_Witness ==
    /\ result.status = "ok"
    /\ \E k, l \in 1..Len(result.jobs) :
           /\ Len(result.jobs[k].match_reasons) = 5
           /\ Len(result.jobs[l].match_reasons) = 4


\* ------------------------------------------------------ services/search.py

truthy_str(o) == o # None /\ Val(o) # <<>>

\* SQLite's LIKE, as the filters use it (no ESCAPE clause): in the pattern %
\* stands for any run of characters and _ for any one character; ASCII
\* letters match whatever their case.
RECURSIVE sql_like(_, _)
sql_like(pattern, text) ==
    IF pattern = <<>> THEN text = <<>>
    ELSE IF Head(pattern) = "%"
    THEN sql_like(Tail(pattern), text) \/ (text # <<>> /\ sql_like(pattern, Tail(text)))
    ELSE /\ text # <<>>
         /\ (Head(pattern) = "_" \/ lower_char(Head(pattern)) = lower_char(Head(text)))
         /\ sql_like(Tail(pattern), Tail(text))

\* LOWER(column) LIKE '%' || arg.lower() || '%'; NULL never matches.
like_contains(column, arg) ==
    column # None /\ sql_like(<<"%">> \o str_lower(arg) \o <<"%">>, str_lower(Val(column)))

\* LOWER(column) = arg.lower(); NULL never matches.
lower_equals(column, arg) ==
    column # None /\ str_lower(Val(column)) = str_lower(arg)

\* json.dumps of a list of strings: ["a", "b"].
RECURSIVE json_items(_)
json_items(items) ==
    IF items = <<>> THEN <<>>
    ELSE <<"\"">> \o Head(items) \o <<"\"">>
         \o (IF Len(items) > 1 THEN <<",", " ">> ELSE <<>>) \o json_items(Tail(items))

\* The text held in the skills column: the JSON array as json.dumps writes it;
\* for text that is not JSON and for a JSON number, one such text.
skills_text(skills) ==
    IF skills = None THEN None
    ELSE IF Val(skills).json = "empty" THEN Some(<<>>)
    ELSE IF Val(skills).json = "array"
    THEN Some(<<"[">> \o json_items(Val(skills).items) \o <<"]">>)
    ELSE IF Val(skills).json = "invalid" THEN Some(<<"{", "o", "o", "p", "s">>)
    ELSE Some(<<"5">>)

\* Stored timestamps compare as text.  ISO-8601 texts of one layout order as
\* their instants; text that is not ISO (an RFC-822 date such as the pubDate
\* job_fetcher stores, "yesterday") starts with a letter and so sorts after
\* every ISO text, which starts with a digit.
posted_key(p) == IF p.iso THEN <<1, p.t>> ELSE <<2, 0>>
text_lt(a, b) ==
    posted_key(a)[1] < posted_key(b)[1]
        \/ (posted_key(a)[1] = posted_key(b)[1] /\ posted_key(a)[2] < posted_key(b)[2])

\* SQL `x < y` for ordering: NULL sorts before every value.
null_first_lt(a, b, as_text) ==
    IF a = None THEN b # None
    ELSE IF b = None THEN FALSE
    ELSE IF as_text THEN text_lt(Val(a), Val(b))
    ELSE Val(a) < Val(b)

\* A range filter that drops the rows whose bound is NULL.
range_clause_strict(filter, column, ge) ==
    filter # None =>
        /\ column # None
        /\ (IF ge THEN Val(column) >= Val(filter) ELSE Val(column) <= Val(filter))

\* (column >= ? OR column IS NULL), or with <=, when the filter is not None.
range_clause(filter, column, ge) ==
    filter # None =>
        \/ column = None
        \/ (IF ge THEN Val(column) >= Val(filter) ELSE Val(column) <= Val(filter))

\* _add_filters: the WHERE clauses a request adds, evaluated on a joined row.
add_filters(a, row) ==
    /\ truthy_str(a.title) => like_contains(Some(row.title), Val(a.title))
    /\ truthy_str(a.location) => like_contains(row.location, Val(a.location))
    /\ truthy_str(a.location_type) => lower_equals(row.location_type, Val(a.location_type))
    /\ truthy_str(a.company) => like_contains(row.company_name, Val(a.company))
    /\ \A i \in 1..Len(opt_list(a.skills)) :
           like_contains(skills_text(row.skills), Val(a.skills)[i])
    /\ range_clause(a.salary_min, row.salary_max, TRUE)
    /\ range_clause(a.salary_max, row.salary_min, FALSE)
    /\ range_clause(a.experience_min, row.experience_max, TRUE)
    /\ range_clause(a.experience_max, row.experience_min, FALSE)
    /\ truthy_str(a.category) => lower_equals(row.category, Val(a.category))
    /\ truthy_str(a.employment_type) => lower_equals(row.employment_type, Val(a.employment_type))
    /\ a.posted_after # None =>
           row.posted_at # None /\ ~text_lt(Val(row.posted_at), Val(a.posted_after))

\* ORDER BY fts.rank where the caller asked for the salary order.
order_by_rank_always(sort, has_fts) ==
    IF has_fts THEN "fts.rank"
    ELSE IF sort = "salary" THEN "j.salary_max DESC"
    ELSE "j.posted_at DESC"

\* _get_order_by
_get_order_by(sort, has_fts) ==
    IF sort = "relevance" /\ has_fts THEN "fts.rank"
    ELSE IF sort = "posted_at" THEN "j.posted_at DESC"
    ELSE IF sort = "salary" THEN "j.salary_max DESC"
    ELSE "j.posted_at DESC"

\* Row a has to come out before row b under the ORDER BY.
sorts_before(order_by, a, b) ==
    IF order_by = "fts.rank" THEN a.fts_rank < b.fts_rank
    ELSE IF order_by = "j.salary_max DESC"
    THEN null_first_lt(b.salary_max, a.salary_max, FALSE)
    ELSE null_first_lt(b.posted_at, a.posted_at, TRUE)

\* The orders in which SQLite may return the rows: any that respects the
\* ORDER BY; rows equal under it come in an order the query does not fix.
RECURSIVE orderings_by(_, _)
orderings_by(rows, order_by) ==
    IF rows = {} THEN {<<>>}
    ELSE UNION {{<<first>> \o rest : rest \in orderings_by(rows \ {first}, order_by)} :
                   first \in {r \in rows : \A o \in rows : ~sorts_before(order_by, o, r)}}

\* LIMIT ? with the OFFSET left out.
limit_only(xs, limit, offset) ==
    SubSeq(xs, 1, IF limit < Len(xs) THEN limit ELSE Len(xs))

\* LIMIT ? OFFSET ?
limit_offset(xs, limit, offset) ==
    SubSeq(xs, offset + 1, IF offset + limit < Len(xs) THEN offset + limit ELSE Len(xs))

\* _row_to_job, the fields the model follows.
_row_to_job(row) ==
    [id |-> row.id,
     title |-> row.title,
     company |-> IF truthy_str(row.company_name) THEN Val(row.company_name) ELSE <<"U", "n", "k", "n", "o", "w", "n">>,
     salary_max |-> row.salary_max,
     posted_at |-> row.posted_at,
     skills |-> job_skills_of(row.skills),
     is_active |-> row.is_active]

\* FROM jobs j LEFT JOIN companies c ON j.company_id = c.id
left_join(table, company_table) ==
    {table[i] @@ [company_name |->
                      IF \E c \in company_table : Some(c.id) = table[i].company_id
                      THEN Some((CHOOSE c \in company_table : Some(c.id) = table[i].company_id).name)
                      ELSE None] : i \in 1..Len(table)}

\* The two SELECTs of a search, for the rows that pass the WHERE.
search_outcomes(rows, order_by, limit, offset) ==
    {[status |-> "ok",
      total |-> Cardinality(rows),
      jobs |-> [k \in 1..Len(limit_offset(o, limit, offset)) |->
                   _row_to_job(limit_offset(o, limit, offset)[k])]] :
        o \in orderings_by(rows, order_by)}

\* _filter_search with the is_active clause left out.
filter_search_any_row(a, table, company_table) ==
    search_outcomes({r \in left_join(table, company_table) : add_filters(a, r)},
                    _get_order_by(a.sort, FALSE), a.limit, a.offset)

\* _filter_search: WHERE j.is_active = 1 AND the filters.
_filter_search(a, table, company_table) ==
    search_outcomes({r \in left_join(table, company_table) : r.is_active /\ add_filters(a, r)},
                    _get_order_by(a.sort, FALSE), a.limit, a.offset)

\* ---------------------------------------------------- the full-text index

Alnum == Range(UPPER) \cup Range(LOWER) \cup Range(DIGITS)

\* The maximal runs of characters of Keep in s, in order.
RECURSIVE runs_from(_, _, _)
runs_from(s, Keep, cur) ==
    IF s = <<>> THEN (IF cur = <<>> THEN <<>> ELSE <<cur>>)
    ELSE IF Head(s) \in Keep THEN runs_from(Tail(s), Keep, Append(cur, Head(s)))
    ELSE (IF cur = <<>> THEN <<>> ELSE <<cur>>) \o runs_from(Tail(s), Keep, <<>>)
runs(s, Keep) == runs_from(s, Keep, <<>>)

\* The unicode61 tokenizer of FTS5: lower-cased runs of letters and digits.
fts_tokens(text) == runs(str_lower(text), Alnum)

\* The primary keys as the text the index holds.
ID_TEXT ==
    [j1 |-> <<"j", "1">>, j2 |-> <<"j", "2">>, j3 |-> <<"j", "3">>, j4 |-> <<"j", "4">>, j5 |-> <<"j", "5">>, j6 |-> <<"j", "6">>, j7 |-> <<"j", "7">>]

\* rebuild_fts: DELETE FROM jobs_fts, then one document per active job.
rebuild_fts(table, company_table) ==
    {[job_id |-> r.id,
      columns |-> <<Some(ID_TEXT[r.id]), Some(r.title), r.description,
                    skills_text(r.skills), r.location, r.company_name>>] :
        r \in {j \in left_join(table, company_table) : j.is_active}}

\* Lines 60-61: q.replace('"', '').replace("'", "").strip(), then every
\* character outside [\w\s\-] becomes a space, then strip().  \w keeps the
\* underscore.
sanitize(q) ==
    LET unquoted == str_strip(SelectSeq(q, LAMBDA c : c \notin {"\"", "'"}))
    IN  str_strip([i \in 1..Len(unquoted) |->
                      IF is_word_char(unquoted[i]) \/ unquoted[i] = "-" \/ is_space(unquoted[i])
                      THEN unquoted[i] ELSE " "])

\* The whitespace-separated words of a sanitized query.
query_words(fts_query) == runs(fts_query, {c \in Range(fts_query) : ~is_space(c)})

FtsKeywords == {<<"A", "N", "D">>, <<"O", "R">>, <<"N", "O", "T">>}

\* The queries FTS5 refuses (sqlite3.OperationalError): a hyphen anywhere, an
\* operator at either end or next to another operator.
fts_syntax_error(words) ==
    \/ \E i \in 1..Len(words) : "-" \in Range(words[i])
    \/ words[1] \in FtsKeywords
    \/ words[Len(words)] \in FtsKeywords
    \/ \E i \in 1..(Len(words) - 1) : words[i] \in FtsKeywords /\ words[i + 1] \in FtsKeywords

\* The phrase (the tokens of one word, adjacent and in order) occurs in the
\* column.
phrase_in_column(word, column) ==
    column # None /\ str_in(fts_tokens(word), fts_tokens(Val(column)))

\* A run of barewords is an implicit AND of phrases, each anywhere in the
\* document; a word without tokens (an underscore) adds no phrase, and a run
\* without any phrase matches nothing.
phrases_match(words, doc) ==
    LET phrases == SelectSeq(words, LAMBDA w : fts_tokens(w) # <<>>)
    IN  /\ phrases # <<>>
        /\ \A i \in 1..Len(phrases) :
               \E c \in 1..Len(doc.columns) : phrase_in_column(phrases[i], doc.columns[c])

last_index(words, keyword) ==
    CHOOSE i \in 1..Len(words) :
        words[i] = keyword /\ \A j \in (i + 1)..Len(words) : words[j] # keyword

\* jobs_fts MATCH ?: OR binds loosest, then AND, then NOT; operators of one
\* kind group from the left.
RECURSIVE fts_match(_, _)
fts_match(words, doc) ==
    LET split(k) == <<SubSeq(words, 1, last_index(words, k) - 1),
                      SubSeq(words, last_index(words, k) + 1, Len(words))>>
    IN  IF <<"O", "R">> \in Range(words)
        THEN fts_match(split(<<"O", "R">>)[1], doc) \/ fts_match(split(<<"O", "R">>)[2], doc)
        ELSE IF <<"A", "N", "D">> \in Range(words)
        THEN fts_match(split(<<"A", "N", "D">>)[1], doc) /\ fts_match(split(<<"A", "N", "D">>)[2], doc)
        ELSE IF <<"N", "O", "T">> \in Range(words)
        THEN fts_match(split(<<"N", "O", "T">>)[1], doc) /\ ~fts_match(split(<<"N", "O", "T">>)[2], doc)
        ELSE phrases_match(words, doc)

\* fts.rank: the engine's score of a document for the query, smaller is
\* better; here minus the number of (phrase, column) hits.
fts_rank(words, doc) ==
    0 - Cardinality({<<i, c>> \in (1..Len(words)) \X (1..Len(doc.columns)) :
                        /\ words[i] \notin FtsKeywords
                        /\ fts_tokens(words[i]) # <<>>
                        /\ phrase_in_column(words[i], doc.columns[c])})

\* _fts_search
_fts_search(a, table, company_table, index) ==
    LET fts_query == sanitize(Val(a.q))
        words == query_words(fts_query)
    IN  IF fts_query = <<>> THEN _filter_search(a, table, company_table)
        ELSE IF fts_syntax_error(words)
        THEN {[status |-> "raised", error |-> "OperationalError"]}
        ELSE search_outcomes(
                 {r @@ [fts_rank |-> fts_rank(words, d)] :
                      <<r, d>> \in {p \in left_join(table, company_table) \X index :
                                       /\ p[2].job_id = p[1].id
                                       /\ p[1].is_active
                                       /\ fts_match(words, p[2])
                                       /\ add_filters(a, p[1])}},
                 _get_order_by(a.sort, TRUE), a.limit, a.offset)

\* search_jobs: the possible (jobs, total) results, or the error raised.
search_jobs(a, table, company_table, index) ==
    IF truthy_str(a.q) THEN _fts_search(a, table, company_table, index)
    ELSE _filter_search(a, table, company_table)

\* get_job_by_id: WHERE j.id = ?, active or not.
get_job_by_id(job_id, table, company_table) ==
    IF \E r \in left_join(table, company_table) : r.id = job_id
    THEN Some(_row_to_job(CHOOSE r \in left_join(table, company_table) : r.id = job_id))
    ELSE None

\* ------------------------------------------- the columns search_jobs reads

CompanyCatalogue ==
    { [id |-> "c1", name |-> <<"A", "c", "m", "e">>], [id |-> "c2", name |-> <<"B", "e", "t", "a", " ", "L", "a", "b", "s">>] }

\* The other columns of the catalogue's rows, by primary key.
JobColumns ==
    [j1 |-> [title |-> <<"P", "y", "t", "h", "o", "n", " ", "D", "e", "v", "e", "l", "o", "p", "e", "r">>, description |-> Some(<<"B", "u", "i", "l", "d", " ", "p", "y", "t", "h", "o", "n", " ", "d", "a", "t", "a", " ", "a", "p", "p", "s">>),
             company_id |-> Some("c1"), category |-> Some(<<"e", "n", "g", "i", "n", "e", "e", "r", "i", "n", "g">>),
             employment_type |-> Some(<<"f", "u", "l", "l", "-", "t", "i", "m", "e">>)],
     j2 |-> [title |-> <<"I", "n", "t", "e", "r", "n">>, description |-> None,
             company_id |-> None, category |-> None, employment_type |-> None],
     j3 |-> [title |-> <<"D", "e", "v", "O", "p", "s", " ", "E", "n", "g", "i", "n", "e", "e", "r">>, description |-> Some(<<"R", "u", "n", " ", "k", "8", "s", ",", " ", "p", "y", "t", "h", "o", "n", " ", "t", "o", "o", "l", "s">>),
             company_id |-> Some("c2"), category |-> Some(<<"E", "n", "g", "i", "n", "e", "e", "r", "i", "n", "g">>),
             employment_type |-> Some(<<"c", "o", "n", "t", "r", "a", "c", "t">>)],
     j4 |-> [title |-> <<"F", "u", "l", "l", "-", "S", "t", "a", "c", "k", " ", "D", "e", "v">>, description |-> Some(<<"n", "o", "d", "e", "_", "j", "s", " ", "a", "n", "d", " ", "p", "y", "t", "h", "o", "n">>),
             company_id |-> Some("c2"), category |-> Some(<<"e", "n", "g", "i", "n", "e", "e", "r", "i", "n", "g">>),
             employment_type |-> Some(<<"F", "u", "l", "l", "-", "T", "i", "m", "e">>)],
     j5 |-> [title |-> <<"P", "y", "t", "h", "o", "n", " ", "L", "e", "a", "d">>, description |-> Some(<<"L", "e", "a", "d", " ", "p", "y", "t", "h", "o", "n", " ", "d", "e", "v", "s">>),
             company_id |-> Some("c1"), category |-> Some(<<"e", "n", "g", "i", "n", "e", "e", "r", "i", "n", "g">>),
             employment_type |-> Some(<<"f", "u", "l", "l", "-", "t", "i", "m", "e">>)],
     j6 |-> [title |-> <<"D", "a", "t", "a", " ", "A", "n", "a", "l", "y", "s", "t">>, description |-> Some(<<>>),
             company_id |-> Some("c1"), category |-> Some(<<"d", "a", "t", "a">>),
             employment_type |-> Some(<<"f", "u", "l", "l", "-", "t", "i", "m", "e">>)],
     j7 |-> [title |-> <<"Q", "A">>, description |-> None,
             company_id |-> Some("c2"), category |-> None,
             employment_type |-> Some(<<"c", "o", "n", "t", "r", "a", "c", "t">>)]]

\* A catalogue row with all its columns.
full_row(row) == row @@ JobColumns[row.id]

\* ------------------------------------------------------ search_jobs, alone

MaxFilters == 2
MaxTicks == 2

\* search_jobs called with its defaults.
DefaultSearch ==
    [q |-> None, title |-> None, location |-> None, location_type |-> None,
     company |-> None, skills |-> None, salary_min |-> None, salary_max |-> None,
     experience_min |-> None, experience_max |-> None, category |-> None,
     employment_type |-> None, posted_after |-> None,
     sort |-> "relevance", limit |-> 20, offset |-> 0]

\* The argument values a caller supplies.
SearchArguments ==
    {<<"q", Some(v)>> : v \in {<<>>, <<"p", "y", "t", "h", "o", "n">>, <<"P", "Y", "T", "H", "O", "N", " ", "d", "e", "v">>, <<" ">>, <<"@", "#", "'">>, <<"_">>, <<"c", "+", "+">>,
                               <<"f", "u", "l", "l", "-", "s", "t", "a", "c", "k">>, <<"p", "y", "t", "h", "o", "n", " ", "O", "R", " ", "i", "n", "t", "e", "r", "n">>, <<"d", "a", "t", "a", " ", "a", "p", "p", "s">>}}
    \cup {<<"title", Some(v)>> : v \in {<<>>, <<"D", "E", "V">>, <<"f", "u", "l", "l", "_", "s", "t", "a", "c", "k">>, <<"p", "y", "t", "h", "o", "n", " ", "d">>}}
    \cup {<<"location", Some(v)>> : v \in {<<"P", "U", "N", "E">>, <<"a", "n">>}}
    \cup {<<"location_type", Some(v)>> : v \in {<<"r", "e", "m", "o", "t", "e">>, <<"O", "N", "S", "I", "T", "E">>}}
    \cup {<<"company", Some(v)>> : v \in {<<"a", "c", "m", "e">>, <<"L", "A", "B", "S">>}}
    \cup {<<"skills", Some(v)>> : v \in {<<>>, <<<<"P", "Y", "T", "H", "O", "N">>, <<"s", "q", "l">>>>, <<<<"p", "y", "t", "h", "o", "n">>, <<"k", "u", "b", "e", "r", "n", "e", "t", "e", "s">>>>, <<<<"o", "o", "p", "s">>>>}}
    \cup {<<"salary_min", Some(v)>> : v \in {0, 60000, 95000}}
    \cup {<<"salary_max", Some(v)>> : v \in {0, 40000}}
    \cup {<<"experience_min", Some(v)>> : v \in {0, 5, 11}}
    \cup {<<"experience_max", Some(v)>> : v \in {0, 2}}
    \cup {<<"category", Some(v)>> : v \in {<<"E", "N", "G", "I", "N", "E", "E", "R", "I", "N", "G">>, <<"d", "a", "t", "a">>}}
    \cup {<<"employment_type", Some(v)>> : v \in {<<"f", "u", "l", "l", "-", "t", "i", "m", "e">>, <<"C", "O", "N", "T", "R", "A", "C", "T">>}}
    \cup {<<"posted_after", Some(v)>> : v \in {[iso |-> TRUE, t |-> -30], [iso |-> TRUE, t |-> 5]}}
    \cup {<<"sort", v>> : v \in {"posted_at", "salary", "newest"}}
    \cup {<<"limit", v>> : v \in {1, 2}}
    \cup {<<"offset", v>> : v \in {1, 3}}

\* The calls that set at most n arguments.
RECURSIVE SearchRequests(_)
SearchRequests(n) ==
    IF n = 0 THEN {DefaultSearch}
    ELSE SearchRequests(n - 1)
         \cup {[a EXCEPT ![p[1]] = p[2]] : a \in SearchRequests(n - 1), p \in SearchArguments}

\* The jobs table holding the whole catalogue, and the index rebuilt from it.
CatalogueTable ==
    LET row(id) == full_row(CHOOSE r \in JobCatalogue : r.id = id)
    IN  <<row("j1"), row("j2"), row("j3"), row("j4"), row("j5"), row("j6"), row("j7")>>

SearchInit ==
    /\ Quiet
    /\ ret = None
    /\ call \in {[fn |-> "search_jobs", a |-> a, table |-> CatalogueTable,
                  companies |-> CompanyCatalogue,
                  index |-> rebuild_fts(CatalogueTable, CompanyCatalogue)] :
                   a \in SearchRequests(MaxFilters)}

SearchJobs ==
    /\ call.fn = "search_jobs" /\ ret = None
    /\ \E outcome \in search_jobs(call.a, call.table, call.companies, call.index) :
           ret' = Some(outcome)
    /\ UNCHANGED <<jobs, now, req, result, call, service>>

SearchSpec == SearchInit /\ [][SearchJobs]_vars

\* --------------------------------------------------------- routers/agent.py

\* Lines 22-25: the caller's skills, joined through a set with the skills
\* read out of the resume when there is one.
agent_skills_of(request) ==
    IF truthy_str(request.resume_text)
    THEN Orderings(Range(opt_list(request.skills)
                         \o extract_skills_from_text(Val(request.resume_text))))
    ELSE {opt_list(request.skills)}

\* The test of line 27 without its job_preferences part.
agent_rejects_ignoring_preferences(request, skills) ==
    skills = <<>> /\ ~truthy_str(request.resume_text)

\* Line 27: not skills and not resume_text and not job_preferences.
agent_rejects(request, skills) ==
    /\ skills = <<>>
    /\ ~truthy_str(request.resume_text)
    /\ ~truthy_str(request.job_preferences)

\* The locals of match_jobs when it reaches `await get_db()`, called as on
\* lines 34-42 (skills if skills else None).
match_jobs_locals(request, skills) ==
    {[experience_years |-> request.experience_years,
      preferred_locations |-> request.preferred_locations,
      salary_min |-> request.salary_min,
      job_preferences |-> request.job_preferences,
      limit |-> request.limit,
      candidate_skills |-> candidate_skills] :
        candidate_skills \in candidate_skills_of(IF skills # <<>> THEN Some(skills) ELSE None,
                                                 request.resume_text)}

\* Lines 47-62: the row written to agent_sessions.
session_row(request, skills, match) ==
    [resume_text |-> request.resume_text,
     resume_skills |-> match.extracted_skills,
     resume_experience_years |-> request.experience_years,
     resume_preferred_locations |->
         IF opt_list(request.preferred_locations) # <<>>
         THEN request.preferred_locations ELSE None,
     resume_preferred_salary_min |-> request.salary_min,
     status |-> "completed",
     results |-> match.jobs]

\* Line 45: "sess_" and 12 hex digits of a uuid4.  Ids drawn at random from
\* 2^48 are taken to differ from those stored: the n-th id drawn is n.
new_session_id(table) == Len(table) + 1

\* An INSERT that is run twice.
session_insert_twice(table, row) == Append(Append(table, row), row)

\* INSERT INTO agent_sessions ...; commit
session_insert(table, row) == Append(table, row)

\* ------------------------------------------------- the service, under load

\* Locals kept at module level: while request "a" is inside a handler, a
\* second request in that handler finds a's values.
locals_shared(all, i) ==
    IF all["a"].op = all[i].op /\ all["a"].pc \notin {"none", "done"} THEN all["a"] ELSE all[i]

\* A handler's arguments and locals live in its own coroutine frame.
locals_of(all, i) == all[i]

\* seed_database / fetch_real_jobs: INSERT OR IGNORE of the job's company and
\* of the job.
SeedJob(row) ==
    /\ \A i \in 1..Len(jobs) : jobs[i].id # row.id
    /\ jobs' = Append(jobs, full_row(row))
    /\ companies' = companies \cup
           {c \in CompanyCatalogue : Some(c.id) = JobColumns[row.id].company_id}
    /\ UNCHANGED <<now, req, result, call, ret, fts, sessions, inv, _db, conn>>

\* An operator's UPDATE jobs SET is_active = ? WHERE id = ?.
SetActive(id, flag) ==
    /\ \E i \in 1..Len(jobs) : jobs[i].id = id /\ jobs[i].is_active # flag
    /\ jobs' = [i \in 1..Len(jobs) |->
                   IF jobs[i].id = id THEN [jobs[i] EXCEPT !.is_active = flag] ELSE jobs[i]]
    /\ UNCHANGED <<now, req, result, call, ret, companies, fts, sessions, inv, _db, conn>>

\* database.rebuild_fts, as the writers call it after their inserts.
RebuildFts ==
    /\ fts' = rebuild_fts(jobs, companies)
    /\ fts' # fts
    /\ UNCHANGED <<jobs, now, req, result, call, ret, companies, sessions, inv, _db, conn>>

\* A day goes by.
Tick ==
    /\ now < 24 * MaxTicks
    /\ now' = now + 24
    /\ UNCHANGED <<jobs, req, result, call, ret, service>>

\* agent_search up to its first await: rejected with 400, or inside
\* match_jobs at `await get_db()`.
AgentSearchCall(i, request) ==
    /\ inv[i].pc = "none"
    /\ \E skills \in agent_skills_of(request) :
           IF agent_rejects(request, skills)
           THEN inv' = [inv EXCEPT ![i] =
                           [op |-> "agent_search", pc |-> "done", request |-> request,
                            response |-> [status |-> "rejected", status_code |-> 400]]]
           ELSE \E locals \in match_jobs_locals(request, skills) :
                    inv' = [inv EXCEPT ![i] =
                               [op |-> "agent_search", pc |-> "fetch", request |-> request,
                                skills |-> skills, req |-> locals]]
    /\ UNCHANGED <<jobs, now, req, result, call, ret, companies, fts, sessions, _db, conn>>

\* match_jobs from its SELECT to its return.  An exception leaves
\* agent_search at once.
AgentSearchMatch(i) ==
    /\ inv[i].pc = "fetch"
    /\ LET match == match_result(locals_of(inv, i).req, active_rows(jobs), now)
       IN  inv' = [inv EXCEPT ![i] =
                      IF match.status = "raised"
                      THEN [pc |-> "done", response |-> match] @@ inv[i]
                      ELSE [pc |-> "store", match |-> match] @@ inv[i]]
    /\ UNCHANGED <<jobs, now, req, result, call, ret, companies, fts, sessions, _db, conn>>

\* Lines 44-70: the session row, the commit and the response.
AgentSearchStore(i) ==
    /\ inv[i].pc = "store"
    /\ sessions' = session_insert(sessions,
                                  [id |-> new_session_id(sessions)]
                                      @@ session_row(inv[i].request, inv[i].skills, inv[i].match))
    /\ inv' = [inv EXCEPT ![i] =
                  [pc |-> "done",
                   response |-> [status |-> "ok",
                                 session_id |-> new_session_id(sessions),
                                 match_count |-> inv[i].match.match_count,
                                 jobs |-> inv[i].match.jobs]] @@ inv[i]]
    /\ UNCHANGED <<jobs, now, req, result, call, ret, companies, fts, _db, conn>>

\* search_jobs up to its first query.
SearchJobsCall(i, a) ==
    /\ inv[i].pc = "none"
    /\ inv' = [inv EXCEPT ![i] = [op |-> "search_jobs", pc |-> "count", a |-> a]]
    /\ UNCHANGED <<jobs, now, req, result, call, ret, companies, fts, sessions, _db, conn>>

\* The SELECT COUNT(*) of either path; a query FTS5 refuses raises here.
SearchJobsCount(i) ==
    /\ inv[i].pc = "count"
    /\ \E outcome \in search_jobs(locals_of(inv, i).a, jobs, companies, fts) :
           inv' = [inv EXCEPT ![i] =
                      IF outcome.status = "raised"
                      THEN [pc |-> "done", response |-> outcome] @@ inv[i]
                      ELSE [pc |-> "select", total |-> outcome.total] @@ inv[i]]
    /\ UNCHANGED <<jobs, now, req, result, call, ret, companies, fts, sessions, _db, conn>>

\* The SELECT ... ORDER BY ... LIMIT ? OFFSET ? and the return.
SearchJobsSelect(i) ==
    /\ inv[i].pc = "select"
    /\ \E outcome \in search_jobs(locals_of(inv, i).a, jobs, companies, fts) :
           inv' = [inv EXCEPT ![i] =
                      [pc |-> "done",
                       response |-> [status |-> "ok", total |-> inv[i].total,
                                     jobs |-> outcome.jobs]] @@ inv[i]]
    /\ UNCHANGED <<jobs, now, req, result, call, ret, companies, fts, sessions, _db, conn>>

\* get_job_by_id up to its query.
GetJobCall(i, job_id) ==
    /\ inv[i].pc = "none"
    /\ inv' = [inv EXCEPT ![i] = [op |-> "get_job_by_id", pc |-> "get", job_id |-> job_id]]
    /\ UNCHANGED <<jobs, now, req, result, call, ret, companies, fts, sessions, _db, conn>>

GetJobRun(i) ==
    /\ inv[i].pc = "get"
    /\ inv' = [inv EXCEPT ![i] =
                  [pc |-> "done",
                   response |-> get_job_by_id(locals_of(inv, i).job_id, jobs, companies)] @@ inv[i]]
    /\ UNCHANGED <<jobs, now, req, result, call, ret, companies, fts, sessions, _db, conn>>

\* The rows written while the service runs.
ServiceRows == {r \in JobCatalogue : r.id \in {"j1", "j5"}}

\* The requests sent to the running service.
ServiceAgentRequests ==
    { [resume_text |-> None, skills |-> None, experience_years |-> None,
       preferred_locations |-> None, salary_min |-> None, job_preferences |-> None,
       limit |-> 1],
      [resume_text |-> None, skills |-> Some(<<<<"P", "y", "t", "h", "o", "n">>>>), experience_years |-> Some(3),
       preferred_locations |-> Some(<<<<"P", "u", "n", "e">>>>), salary_min |-> Some(50000),
       job_preferences |-> None, limit |-> 1] }

ServiceSearches ==
    { DefaultSearch,
      [DefaultSearch EXCEPT !.q = Some(<<"p", "y", "t", "h", "o", "n">>)],
      [DefaultSearch EXCEPT !.q = Some(<<"@", "#", "'">>), !.title = Some(<<"p", "y", "t", "h", "o", "n">>)] }

ServiceNext ==
    \/ \E row \in ServiceRows : SeedJob(row)
    \/ \E row \in ServiceRows, flag \in BOOLEAN : SetActive(row.id, flag)
    \/ RebuildFts
    \/ \E i \in Invocations, request \in ServiceAgentRequests : AgentSearchCall(i, request)
    \/ \E i \in Invocations : AgentSearchMatch(i)
    \/ \E i \in Invocations : AgentSearchStore(i)
    \/ \E i \in Invocations, a \in ServiceSearches : SearchJobsCall(i, a)
    \/ \E i \in Invocations : SearchJobsCount(i)
    \/ \E i \in Invocations : SearchJobsSelect(i)
    \/ \E i \in Invocations, row \in ServiceRows : GetJobCall(i, row.id)
    \/ \E i \in Invocations : GetJobRun(i)

ServiceSpec == Init /\ [][ServiceNext]_vars

\* ------------------------------------------ the same request, sent again

\* The job pools a request may find: up to two of these rows, in any order.
RerunTables ==
    LET rows == {full_row(r) : r \in {c \in JobCatalogue : c.id \in {"j1", "j2", "j4", "j5"}}}
    IN  {<<>>} \cup {<<r>> : r \in rows}
               \cup {<<r, s>> : <<r, s>> \in {p \in rows \X rows : p[1].id # p[2].id}}

RerunRequests ==
    { [resume_text |-> None, skills |-> Some(<<<<"P", "y", "t", "h", "o", "n">>>>), experience_years |-> Some(3),
       preferred_locations |-> Some(<<<<"P", "u", "n", "e">>>>), salary_min |-> Some(50000),
       job_preferences |-> None, limit |-> 1],
      [resume_text |-> None, skills |-> None, experience_years |-> None,
       preferred_locations |-> None, salary_min |-> None,
       job_preferences |-> Some(<<"r", "e", "m", "o", "t", "e", " ", "o", "n", "l", "y">>), limit |-> 20] }

\* The pool is stored before the requests come and is not written again.
RerunInit ==
    /\ jobs \in RerunTables
    /\ companies = CompanyCatalogue
    /\ fts = rebuild_fts(jobs, companies)
    /\ now = 0
    /\ req = Idle /\ result = NoResult /\ call = NoCall /\ ret = None
    /\ sessions = <<>>
    /\ inv = [i \in Invocations |-> NotStarted]
    /\ NoConnection

RerunNext ==
    \/ Tick
    \/ \E i \in Invocations, request \in RerunRequests : AgentSearchCall(i, request)
    \/ \E i \in Invocations : AgentSearchMatch(i)
    \/ \E i \in Invocations : AgentSearchStore(i)

RerunSpec == RerunInit /\ [][RerunNext]_vars

\* ---------------------------------------------------- agent_search, alone

\* The profile fields line 27 looks at, absent, empty and filled.
AgentRequests ==
    {[resume_text |-> resume_text, skills |-> skills, experience_years |-> None,
      preferred_locations |-> None, salary_min |-> None,
      job_preferences |-> job_preferences, limit |-> 1] :
        resume_text \in {None, Some(<<>>), Some(<<" ">>), Some(<<"S", "Q", "L">>)},
        skills \in {None, Some(<<>>), Some(<<<<>>>>), Some(<<<<"P", "y", "t", "h", "o", "n">>>>)},
        job_preferences \in {None, Some(<<>>), Some(<<"r", "e", "m", "o", "t", "e", " ", "o", "n", "l", "y">>)}}

AgentInit ==
    /\ jobs \in {t \in RerunTables : Len(t) <= 1}
    /\ companies = CompanyCatalogue
    /\ fts = rebuild_fts(jobs, companies)
    /\ now = 0
    /\ req = Idle /\ result = NoResult /\ call = NoCall /\ ret = None
    /\ sessions = <<>>
    /\ inv = [i \in Invocations |-> NotStarted]
    /\ NoConnection

AgentNext ==
    \/ \E i \in Invocations, request \in AgentRequests : AgentSearchCall(i, request)
    \/ \E i \in Invocations : AgentSearchMatch(i)
    \/ \E i \in Invocations : AgentSearchStore(i)

AgentSpec == AgentInit /\ [][AgentNext]_vars

\* ------------------------------------------------- properties, continued

\* The stored skills text decodes to something other than a list of strings
\* (or is null, empty or not JSON at all).
bad_skills(row) ==
    row.skills = None \/ Val(row.skills).json # "array"

\* C11: once the rows are fetched match_jobs returns a result whatever the
\* rows hold: no invocation ends by raising, no fetched job is dropped (the
\* list has min(limit, n) entries for n fetched rows), a job whose skills
\* column is null, empty, not JSON, or JSON that is not a list of strings is
\* scored as a job without skills (no matched and no missing skills), and a
\* job whose timestamp is malformed is given the unknown-recency reason.
C11_EveryRecordScored ==
    req.pc = "done" =>
        /\ result.status = "ok"
        /\ Len(result.jobs) = Min(req.limit, Len(req.rows))
        /\ \A k \in 1..Len(result.jobs) :
               \A i \in 1..Len(req.rows) :
                   req.rows[i].id = result.jobs[k].id =>
                       /\ bad_skills(req.rows[i]) =>
                              /\ result.jobs[k].skills_match = <<>>
                              /\ result.jobs[k].skills_missing = <<>>
                       /\ (req.rows[i].posted_at # None /\ ~Val(req.rows[i].posted_at).iso) =>
                              \E n \in 1..Len(result.jobs[k].match_reasons) :
                                  result.jobs[k].match_reasons[n] =
                                      [component |-> "recency",
                                       text |-> "Recency: Unknown posting date"]

active_ids(table) == {table[k].id : k \in {n \in 1..Len(table) : table[n].is_active}}

\* C12: whatever was inserted, activated and deactivated before, a read of
\* match_jobs or of search_jobs (free-text path, structured path, fallback
\* from an empty sanitized query) takes into account only rows whose active
\* flag is set when it runs: each job it lists is such a row, match_count and
\* total count no other row, and the count is what it would be with the
\* inactive rows deleted.
C12_OnlyActiveJobs ==
    [][\A i \in Invocations :
        /\ (inv[i].pc = "fetch" /\ inv'[i].pc = "store") =>
               /\ \A k \in 1..Len(inv'[i].match.jobs) :
                      inv'[i].match.jobs[k].id \in active_ids(jobs)
               /\ inv'[i].match.match_count =
                      Cardinality({k \in 1..Len(jobs) :
                          /\ jobs[k].is_active
                          /\ scored_job(inv[i].req, jobs[k], now).match_score >= 30})
        /\ (inv[i].pc = "count" /\ inv'[i].pc = "select") =>
               /\ inv'[i].total <= Cardinality(active_ids(jobs))
               /\ inv'[i].total \in
                      {o.total : o \in search_jobs(inv[i].a, active_rows(jobs), companies, fts)}
        /\ (inv[i].pc = "select" /\ inv'[i].pc = "done") =>
               \A k \in 1..Len(inv'[i].response.jobs) :
                   /\ inv'[i].response.jobs[k].id \in active_ids(jobs)
                   /\ inv'[i].response.jobs[k].is_active
      ]_vars

\* A free-text search has answered with one job while two jobs are stored
\* and indexed and only one of them is active.
C12_Witness ==
    \E i \in Invocations :
        /\ inv[i].op = "search_jobs" /\ inv[i].pc = "done"
        /\ inv[i].a.q = Some(<<"p", "y", "t", "h", "o", "n">>)
        /\ inv[i].response.status = "ok"
        /\ inv[i].response.total = 1 /\ Len(inv[i].response.jobs) = 1
        /\ Len(jobs) = 2 /\ Cardinality(active_ids(jobs)) = 1
        /\ Cardinality(fts) = 2

\* The same on the fallback from a query that sanitizes to nothing.
C12_WitnessFallback ==
    \E i \in Invocations :
        /\ inv[i].op = "search_jobs" /\ inv[i].pc = "done"
        /\ inv[i].a.q = Some(<<"@", "#", "'">>)
        /\ inv[i].response.total = 1
        /\ Len(jobs) = 2 /\ Cardinality(active_ids(jobs)) = 1

\* A match has scored one job while an inactive one is stored.
C12_WitnessMatch ==
    \E i \in Invocations :
        /\ inv[i].op = "agent_search" /\ inv[i].pc = "done"
        /\ inv[i].response.status = "ok"
        /\ Len(inv[i].response.jobs) = 1
        /\ Len(jobs) = 2 /\ Cardinality(active_ids(jobs)) = 1

\* match_jobs has returned to the request.
has_match(i) ==
    /\ inv[i].op = "agent_search"
    /\ inv[i].pc = "store" \/ (inv[i].pc = "done" /\ inv[i].response.status = "ok")

\* C13: against a job pool that is not written, two runs of match_jobs with
\* the same arguments (skills, experience, locations, salary floor, resume
\* text, preferences, limit) return the same result: the same jobs in the
\* same order with the same scores, reasons and skill lists, the same
\* match_count and the same extracted_skills.
C13_SameInputsSameResult ==
    \A i, j \in Invocations :
        (has_match(i) /\ has_match(j)
            /\ inv[i].request = inv[j].request /\ inv[i].skills = inv[j].skills)
        => inv[i].match = inv[j].match

\* The three profile fields are all absent or empty.
empty_profile(request) ==
    /\ opt_list(request.skills) = <<>>
    /\ ~truthy_str(request.resume_text)
    /\ ~truthy_str(request.job_preferences)

\* C14: agent_search answers 400 without entering match_jobs and without
\* storing a session exactly when resume_text, skills and job_preferences are
\* all empty or absent; any other request enters match_jobs, and the sessions
\* stored are those of the requests answered.
C14_RejectsEmptyProfile ==
    /\ \A i \in Invocations :
           inv[i].op = "agent_search" =>
               IF empty_profile(inv[i].request)
               THEN /\ inv[i].pc = "done"
                    /\ inv[i].response.status = "rejected"
                    /\ "req" \notin DOMAIN inv[i]
               ELSE /\ "req" \in DOMAIN inv[i]
                    /\ inv[i].pc = "done" => inv[i].response.status # "rejected"
    /\ Len(sessions) =
           Cardinality({i \in Invocations :
               inv[i].op = "agent_search" /\ inv[i].pc = "done"
                   /\ inv[i].response.status = "ok"})

\* One request with the three fields present but empty was turned away and
\* one carrying only job_preferences was answered and its session stored.
C14_Witness ==
    \E i, j \in Invocations :
        /\ inv[i].op = "agent_search" /\ inv[i].pc = "done"
        /\ inv[i].response.status = "rejected"
        /\ inv[i].request.skills = Some(<<>>)
        /\ inv[i].request.resume_text = Some(<<>>)
        /\ inv[i].request.job_preferences = Some(<<>>)
        /\ inv[j].op = "agent_search" /\ inv[j].pc = "done"
        /\ inv[j].response.status = "ok"
        /\ inv[j].request.skills = None /\ inv[j].request.resume_text = None
        /\ Len(sessions) = 1

\* C15: a step of match_jobs, search_jobs or get_job_by_id, at whatever point
\* of whatever interleaving, leaves the jobs table, the companies table and
\* the full-text index as they were; the session store changes only when an
\* accepted agent_search completes, and then by exactly one appended row.
C15_CoreReadsOnly ==
    [][\A i \in Invocations :
        inv'[i] # inv[i] =>
            /\ jobs' = jobs /\ companies' = companies /\ fts' = fts
            /\ IF inv[i].op = "agent_search" /\ inv[i].pc = "store"
               THEN /\ Len(sessions') = Len(sessions) + 1
                    /\ SubSeq(sessions', 1, Len(sessions)) = sessions
                    /\ sessions'[Len(sessions')].results = inv[i].match.jobs
               ELSE sessions' = sessions
      ]_vars

\* Two jobs are stored, a search and an accepted agent_search have both
\* completed, and one session row is stored.
C15_Witness ==
    \E i, j \in Invocations :
        /\ inv[i].op = "agent_search" /\ inv[i].pc = "done" /\ inv[i].response.status = "ok"
        /\ inv[j].op = "search_jobs" /\ inv[j].pc = "done"
        /\ Len(jobs) = 2
        /\ Len(sessions) = 1

\* The three parts of a search result of an outcome.
totals_of(outcomes) == {o.total : o \in {x \in outcomes : x.status = "ok"}}
pages_of(outcomes) == {o.jobs : o \in {x \in outcomes : x.status = "ok"}}

\* C16: however the requests interleave at their awaits, each read of an
\* invocation gives what the same call would give running alone against the
\* store as it is at that read (match_jobs: the scored, ranked and cut pool;
\* search_jobs: the count, then the page), computed from the invocation's own
\* arguments, and a step of one invocation changes nothing the other holds.
C16_InvocationsIndependent ==
    [][\A i \in Invocations :
        inv'[i] # inv[i] =>
            /\ \A j \in Invocations \ {i} : inv'[j] = inv[j]
            /\ (inv[i].pc = "fetch") =>
                   LET alone == match_result(inv[i].req, active_rows(jobs), now)
                   IN  IF alone.status = "ok" THEN inv'[i].match = alone
                       ELSE inv'[i].response = alone
            /\ (inv[i].pc = "count") =>
                   LET alone == search_jobs(inv[i].a, jobs, companies, fts)
                   IN  IF inv'[i].pc = "done" THEN inv'[i].response \in alone
                       ELSE inv'[i].total \in totals_of(alone)
            /\ (inv[i].pc = "select") =>
                   /\ inv'[i].response.jobs \in
                          pages_of(search_jobs(inv[i].a, jobs, companies, fts))
                   /\ inv'[i].response.total = inv[i].total
            /\ (inv[i].pc = "get") =>
                   inv'[i].response = get_job_by_id(inv[i].job_id, jobs, companies)
      ]_vars

\* Both requests are suspended between two awaits of the same handler, with
\* different arguments, and jobs are stored.
C16_Witness ==
    /\ inv["a"].op = "search_jobs" /\ inv["b"].op = "search_jobs"
    /\ inv["a"].pc = "select" /\ inv["b"].pc = "select"
    /\ inv["a"].a # inv["b"].a
    /\ inv["a"].total # inv["b"].total
    /\ Len(jobs) = 2

\* A match and a search are both suspended after their first read.
C16_WitnessMixed ==
    /\ inv["a"].op = "search_jobs" /\ inv["a"].pc = "select" /\ inv["a"].total > 0
    /\ inv["b"].op = "agent_search" /\ inv["b"].pc = "store"
    /\ Len(inv["b"].match.jobs) > 0

\* The free-text query of a call that reaches the index, as words; <<>> when
\* the call has no query or the query sanitizes to nothing.
searched_words(a) ==
    IF truthy_str(a.q) THEN query_words(sanitize(Val(a.q))) ELSE <<>>

\* The row is in the index under the call's free-text query, when it has one.
query_hits(a, row, index) ==
    searched_words(a) # <<>> =>
        \E d \in index : d.job_id = row.id /\ fts_match(searched_words(a), d)

\* arg is in the column's text, whatever the case of either.
like_contains_literal(column, arg) ==
    column # None /\ str_in(str_lower(arg), str_lower(Val(column)))

\* The filters as substrings and exact matches, whatever case, on one row.
substring_filters(a, row) ==
    /\ truthy_str(a.title) => like_contains_literal(Some(row.title), Val(a.title))
    /\ truthy_str(a.location) => like_contains_literal(row.location, Val(a.location))
    /\ truthy_str(a.company) => like_contains_literal(row.company_name, Val(a.company))
    /\ \A i \in 1..Len(opt_list(a.skills)) :
           like_contains_literal(skills_text(row.skills), Val(a.skills)[i])
    /\ truthy_str(a.location_type) => lower_equals(row.location_type, Val(a.location_type))
    /\ truthy_str(a.category) => lower_equals(row.category, Val(a.category))
    /\ truthy_str(a.employment_type) => lower_equals(row.employment_type, Val(a.employment_type))
    /\ a.posted_after # None =>
           row.posted_at # None /\ ~text_lt(Val(row.posted_at), Val(a.posted_after))

\* The calls that supply no range filter.
no_range_filter(a) ==
    /\ a.salary_min = None /\ a.salary_max = None
    /\ a.experience_min = None /\ a.experience_max = None

\* The ids on a returned page.
page_ids(outcome) == {outcome.jobs[k].id : k \in 1..Len(outcome.jobs)}

\* The call's arguments with its range filters taken out.
without_ranges(a) ==
    [a EXCEPT !.salary_min = None, !.salary_max = None,
              !.experience_min = None, !.experience_max = None]

\* C17: a search that returns, on either path, counts exactly the active jobs
\* that contain each of title, location, company and every listed skill as a
\* substring whatever the case, equal location-type, category and
\* employment-type whatever the case, and are posted at or after the floor;
\* its page holds only such jobs.
C17_ExactlyTheFilteredJobs ==
    (ret # None /\ Val(ret).status = "ok" /\ no_range_filter(call.a)) =>
        LET wanted == {r \in left_join(call.table, call.companies) :
                          /\ r.is_active
                          /\ query_hits(call.a, r, call.index)
                          /\ substring_filters(call.a, r)}
        IN  /\ Val(ret).total = Cardinality(wanted)
            /\ page_ids(Val(ret)) \subseteq {r.id : r \in wanted}

\* The range filters as the bound being NULL or on the right side of the
\* filter.
range_tolerant(a, row) ==
    /\ a.salary_min # None => (row.salary_max = None \/ Val(row.salary_max) >= Val(a.salary_min))
    /\ a.salary_max # None => (row.salary_min = None \/ Val(row.salary_min) <= Val(a.salary_max))
    /\ a.experience_min # None =>
           (row.experience_max = None \/ Val(row.experience_max) >= Val(a.experience_min))
    /\ a.experience_max # None =>
           (row.experience_min = None \/ Val(row.experience_min) <= Val(a.experience_max))

\* The rows whose salary and experience bounds are all NULL.
all_bounds_null(row) ==
    /\ row.salary_min = None /\ row.salary_max = None
    /\ row.experience_min = None /\ row.experience_max = None

\* C18: the range filters of a search keep exactly the rows whose bound is
\* NULL or on the right side of the filter (salary_min against the ceiling,
\* salary_max against the floor, experience likewise), so a row whose four
\* bounds are NULL is counted whenever the same call without its range filters
\* would count it.
C18_RangeFiltersKeepNulls ==
    (ret # None /\ Val(ret).status = "ok") =>
        LET others == {r \in left_join(call.table, call.companies) :
                          /\ r.is_active
                          /\ query_hits(call.a, r, call.index)
                          /\ add_filters(without_ranges(call.a), r)}
            kept == {r \in others : range_tolerant(call.a, r)}
        IN  /\ Val(ret).total = Cardinality(kept)
            /\ page_ids(Val(ret)) \subseteq {r.id : r \in kept}
            /\ {r \in others : all_bounds_null(r)} \subseteq kept
            /\ (Val(ret).total <= call.a.limit /\ call.a.offset = 0) =>
                   {r.id : r \in {o \in others : all_bounds_null(o)}} \subseteq page_ids(Val(ret))

\* A search with two range filters that no stored bound satisfies returned
\* the two jobs whose bounds are all NULL.
C18_Witness ==
    /\ ret # None /\ Val(ret).status = "ok"
    /\ call.a.salary_min = Some(95000) /\ call.a.experience_min = Some(11)
    /\ page_ids(Val(ret)) = {"j2", "j7"}

\* A range filter dropped a job with a stored bound and kept one without.
C18_WitnessMixed ==
    /\ ret # None /\ Val(ret).status = "ok"
    /\ call.a.salary_max = Some(40000) /\ call.a.salary_min = None
    /\ {"j1", "j6"} \cap page_ids(Val(ret)) = {}
    /\ {"j2", "j3"} \subseteq page_ids(Val(ret))

\* No character of the query is a letter, a digit or a hyphen.
nothing_searchable(q) == \A i \in 1..Len(q) : q[i] \notin Alnum \cup {"-"}

\* C19: a search whose free-text query holds no letter, digit or hyphen
\* returns without an error what the structured-filter path returns for the
\* same filters, sort, limit and offset.
C19_UnsearchableQueryFallsBack ==
    (ret # None /\ truthy_str(call.a.q) /\ nothing_searchable(Val(call.a.q))) =>
        /\ sanitize(Val(call.a.q)) = <<>>
        /\ Val(ret) \in _filter_search(call.a, call.table, call.companies)

\* The stored row of a returned job.
row_of(id) == CHOOSE r \in left_join(call.table, call.companies) : r.id = id

\* The rank of a returned job under the call's query.
rank_of(id) ==
    fts_rank(searched_words(call.a), CHOOSE d \in call.index : d.job_id = id)

\* Job x may come out before job y under the order the call asks for.
may_precede(a, x, y) ==
    IF a.sort = "relevance" /\ searched_words(a) # <<>> THEN rank_of(x.id) <= rank_of(y.id)
    ELSE IF a.sort = "salary"
    THEN y.salary_max = None \/ (x.salary_max # None /\ Val(x.salary_max) >= Val(y.salary_max))
    ELSE y.posted_at = None
             \/ (x.posted_at # None /\ ~text_lt(Val(x.posted_at), Val(y.posted_at)))

C20_WitnessFallback ==
    /\ ret # None /\ Val(ret).status = "ok"
    /\ truthy_str(call.a.q) /\ searched_words(call.a) = <<>> /\ call.a.sort = "relevance"
    /\ Len(Val(ret).jobs) >= 3
    /\ Val(ret).jobs[1].posted_at # Val(ret).jobs[2].posted_at

\* A free-text search sorted by relevance returned jobs of different ranks.
C20_WitnessRank ==
    /\ ret # None /\ Val(ret).status = "ok"
    /\ searched_words(call.a) # <<>> /\ call.a.sort = "relevance"
    /\ Len(Val(ret).jobs) >= 2
    /\ rank_of(Val(ret).jobs[1].id) < rank_of(Val(ret).jobs[2].id)

\* --------------------------------------------- normalize_skill, alone

\* The tokens a caller passes: every key and every value of the table, as it
\* is, in capitals and padded, and tokens the table does not know.
NormalizeInit ==
    /\ Quiet
    /\ ret = None
    /\ call \in {[fn |-> "normalize_skill", skill |-> t] : t \in
            LET known == DOMAIN SKILL_ALIASES \cup {SKILL_ALIASES[k] : k \in DOMAIN SKILL_ALIASES}
                str_upper(s) ==
                    [i \in 1..Len(s) |->
                        IF s[i] \in Range(LOWER)
                        THEN UPPER[CHOOSE k \in 1..Len(LOWER) : LOWER[k] = s[i]]
                        ELSE s[i]]
            IN  known
                \cup {str_upper(k) : k \in known}
                \cup {<<" ">> \o k \o <<"\t", " ">> : k \in known}
                \cup {<<>>, <<" ">>, <<"r", "u", "s", "t">>, <<" ", "R", "u", "s", "t", " ">>, <<"C">>, <<"c">>, <<"R">>, <<"p", "y", " ", "t", "h", "o", "n">>, <<".">>, <<"n", "o", "d", "e", " ", "j", "s">>}}

\* normalize_skill(skill)
NormalizeSkill ==
    /\ call.fn = "normalize_skill" /\ ret = None
    /\ ret' = Some(<<normalize_skill(call.skill)>>)
    /\ UNCHANGED <<jobs, now, req, result, call, service>>

\* normalize_skill of what the first call returned.
NormalizeAgain ==
    /\ call.fn = "normalize_skill" /\ ret # None /\ Len(Val(ret)) = 1
    /\ ret' = Some(Append(Val(ret), normalize_skill(Val(ret)[1])))
    /\ UNCHANGED <<jobs, now, req, result, call, service>>

NormalizeSpec == NormalizeInit /\ [][NormalizeSkill \/ NormalizeAgain]_vars

\* ------------------------------------- extract_skills_from_text, alone

\* Resume texts: phrases alone, inside longer phrases and run together; single
\* words alone, inside longer words and beside punctuation.
ExtractTexts ==
    {<<>>, <<"m", "a", "c", "h", "i", "n", "e", " ", "l", "e", "a", "r", "n", "i", "n", "g">>, <<"M", "a", "c", "h", "i", "n", "e", " ", "L", "e", "a", "r", "n", "i", "n", "g", " ", "e", "n", "g", "i", "n", "e", "e", "r">>, <<"m", "a", "c", "h", "i", "n", "e", "l", "e", "a", "r", "n", "i", "n", "g">>,
     <<"d", "e", "e", "p", " ", "m", "a", "c", "h", "i", "n", "e", " ", "l", "e", "a", "r", "n", "i", "n", "g", " ", "o", "p", "s">>, <<"I", " ", "k", "n", "o", "w", " ", "c", "+", "+", " ", "a", "n", "d", " ", "j", "a", "v", "a">>, <<"c", "+", "+">>, <<"c", "+", "+", "1", "7">>, <<"c", "#">>,
     <<"c", "#", "d", "e", "v">>, <<"c">>, <<"r">>, <<"R", " ", "a", "n", "d", " ", "C">>, <<"r", "-", "l", "a", "n", "g">>, <<"p", "x">>, <<"g", "o", "i", "n", "g", " ", "t", "o", " ", "g", "o", "l", "a", "n", "g">>, <<"j", "a", "v", "a", "s", "c", "r", "i", "p", "t">>,
     <<"j", "a", "v", "a", " ", "s", "c", "r", "i", "p", "t">>, <<"a", "s", "p", ".", "n", "e", "t", " ", "c", "o", "r", "e">>, <<".", "n", "e", "t", " ", "d", "e", "v", "e", "l", "o", "p", "e", "r">>, <<"i", "n", "t", "e", "r", "n", "e", "t">>, <<"r", "e", "a", "c", "t", " ", "n", "a", "t", "i", "v", "e", " ", "a", "p", "p">>,
     <<"u", "i", "/", "u", "x", " ", "d", "e", "s", "i", "g", "n", "e", "r">>, <<"m", "y", "s", "q", "l", " ", "a", "d", "m", "i", "n">>, <<"s", "c", "i", "k", "i", "t", "-", "l", "e", "a", "r", "n">>, <<"k", "8", "s">>, <<"n", "o", "d", "e", ".", "j", "s">>, <<"n", "o", "d", "e", "j", "s">>,
     <<"d", "a", "t", "a", " ", "s", "c", "i", "e", "n", "c", "e", " ", "a", "n", "d", " ", "d", "a", "t", "a", " ", "a", "n", "a", "l", "y", "s", "i", "s">>, <<"r", "e", "s", "t", " ", "a", "p", "i", "s">>, <<"p", "y">>, <<"p", "y", "t", "h", "o", "n", "3", ".", "6">>, <<"S", "Q", "L", ",", " ", "C", "+", "+">>,
     <<"C", "I", "/", "C", "D", "\t", "D", "o", "c", "k", "e", "r">>, <<"g", "o", "_", "l", "a", "n", "g">>, <<"x">>}

\* A text alone, or a text and explicit skills (aliases, repeats under one
\* canonical token, blanks) as match_jobs gets them.
ExtractInit ==
    /\ Quiet
    /\ ret = None
    /\ call \in {[fn |-> "extract_skills_from_text", text |-> t] : t \in ExtractTexts}
                \cup {[fn |-> "candidate_skills", skills |-> s, resume_text |-> t] :
                          s \in {None, Some(<<>>), Some(<<<<" ", "p", "y", " ">>>>), Some(<<<<"P", "y", "t", "h", "o", "n">>, <<"p", "y", "t", "h", "o", "n", "3">>>>), Some(<<<<>>>>), Some(<<<<" ">>, <<"S", "Q", "L">>>>), Some(<<<<"R", "u", "s", "t">>, <<"k", "8", "s">>, <<"r", "u", "s", "t">>>>), Some(<<<<"m", "l">>, <<"J", "S">>>>)}, t \in {None} \cup {Some(x) : x \in ExtractTexts}}

\* extract_skills_from_text(text)
ExtractSkills ==
    /\ call.fn = "extract_skills_from_text" /\ ret = None
    /\ ret' = Some(extract_skills_from_text(call.text))
    /\ UNCHANGED <<jobs, now, req, result, call, service>>

\* match_jobs, lines 168-174: the candidate skills of the call.
CandidateSkills ==
    /\ call.fn = "candidate_skills" /\ ret = None
    /\ \E candidate_skills \in candidate_skills_of(call.skills, call.resume_text) :
           ret' = Some(candidate_skills)
    /\ UNCHANGED <<jobs, now, req, result, call, service>>

ExtractSpec == ExtractInit /\ [][ExtractSkills \/ CandidateSkills]_vars

\* ------------------------------------------------- routers/agent.py, replay

\* get_session: the row of that id, or 404; results is the stored JSON text of
\* the jobs, read back as the list of the same dicts (their values are
\* strings, integers, None and lists of strings), and match_count its length.
get_session(session_id, table) ==
    IF \A k \in 1..Len(table) : table[k].id # session_id
    THEN [status |-> "raised", status_code |-> 404]
    ELSE LET row == table[CHOOSE k \in 1..Len(table) : table[k].id = session_id]
         IN  [status |-> row.status, session_id |-> row.id,
              match_count |-> Len(row.results),
              jobs |-> row.results]

\* get_session up to its query, called with an id a search has returned or
\* with one that was never issued (0).
GetSessionCall(i, session_id) ==
    /\ inv[i].pc = "none"
    /\ \/ session_id = 0
       \/ \E k \in Invocations :
              /\ inv[k].op = "agent_search" /\ inv[k].pc = "done"
              /\ inv[k].response.status = "ok"
              /\ inv[k].response.session_id = session_id
    /\ inv' = [inv EXCEPT ![i] = [op |-> "get_session", pc |-> "row", session_id |-> session_id]]
    /\ UNCHANGED <<jobs, now, req, result, call, ret, companies, fts, sessions, _db, conn>>

GetSessionRun(i) ==
    /\ inv[i].pc = "row"
    /\ inv' = [inv EXCEPT ![i] =
                  [pc |-> "done",
                   response |-> get_session(locals_of(inv, i).session_id, sessions)] @@ inv[i]]
    /\ UNCHANGED <<jobs, now, req, result, call, ret, companies, fts, sessions, _db, conn>>

\* Searches and replays over a pool that is not written.
ReplaySpec ==
    RerunInit /\ [][\/ \E i \in Invocations, request \in RerunRequests : AgentSearchCall(i, request)
                    \/ \E i \in Invocations : AgentSearchMatch(i)
                    \/ \E i \in Invocations : AgentSearchStore(i)
                    \/ \E i \in Invocations, session_id \in 0..1 : GetSessionCall(i, session_id)
                    \/ \E i \in Invocations : GetSessionRun(i)]_vars

\* ------------------------------------------- database.get_db / close_db

\* get_db, line 18: `if _db is None`; otherwise line 23 returns _db at once.
GetDbCall(i) ==
    /\ conn.caller[i].pc = "idle"
    /\ conn' = [conn EXCEPT !.caller[i] =
                    IF _db = None THEN [pc |-> "connect"]
                    ELSE [pc |-> "done", got |-> _db, closing |-> Val(_db) \in conn.closed]]
    /\ UNCHANGED <<jobs, now, req, result, call, ret, companies, fts, sessions, inv, _db>>

\* Line 19: the awaited aiosqlite.connect returns and _db is assigned; lines
\* 20-21 go on without a suspension to the await of the first PRAGMA, on the
\* connection just assigned.
GetDbConnect(i) ==
    /\ conn.caller[i].pc = "connect"
    /\ _db' = Some(conn.opened + 1)
    /\ conn' = [conn EXCEPT !.opened = conn.opened + 1,
                            !.caller[i] = [pc |-> "pragma", on |-> conn.opened + 1]]
    /\ UNCHANGED <<jobs, now, req, result, call, ret, companies, fts, sessions, inv>>

\* Lines 21-22: the first PRAGMA returns and the second is started on
\* whatever _db refers to by now.  A statement on a connection being closed
\* runs or raises, and with _db reset to None line 22 raises AttributeError.
GetDbPragma(i) ==
    /\ conn.caller[i].pc = "pragma"
    /\ \E raised \in {conn.caller[i].on \in conn.closed, FALSE} :
           conn' = [conn EXCEPT !.caller[i] =
                       IF raised \/ _db = None THEN [pc |-> "done", got |-> None, closing |-> FALSE]
                       ELSE [pc |-> "return", on |-> Val(_db)]]
    /\ UNCHANGED <<jobs, now, req, result, call, ret, companies, fts, sessions, inv, _db>>

\* Lines 22-23: the second PRAGMA returns and get_db returns what _db refers
\* to by now.
GetDbReturn(i) ==
    /\ conn.caller[i].pc = "return"
    /\ \E raised \in {conn.caller[i].on \in conn.closed, FALSE} :
           conn' = [conn EXCEPT !.caller[i] =
                       IF raised THEN [pc |-> "done", got |-> None, closing |-> FALSE]
                       ELSE [pc |-> "done", got |-> _db,
                             closing |-> _db # None /\ Val(_db) \in conn.closed]]
    /\ UNCHANGED <<jobs, now, req, result, call, ret, companies, fts, sessions, inv, _db>>

\* close_db, lines 29-30: `if _db:` and the start of `await _db.close()`.
CloseDbCall ==
    /\ conn.closer = "idle"
    /\ conn' = IF _db = None THEN [conn EXCEPT !.closer = "done"]
               ELSE [conn EXCEPT !.closer = "closing", !.closed = conn.closed \cup _db]
    /\ UNCHANGED <<jobs, now, req, result, call, ret, companies, fts, sessions, inv, _db>>

\* Lines 30-31: close() returns and _db is set to None, whatever it refers to
\* by now.
CloseDbDone ==
    /\ conn.closer = "closing"
    /\ _db' = None
    /\ conn' = [conn EXCEPT !.closer = "done"]
    /\ UNCHANGED <<jobs, now, req, result, call, ret, companies, fts, sessions, inv>>

\* Callers of get_db and one close_db, in any interleaving.
PoolSpec ==
    Init /\ [][\/ \E i \in Invocations : GetDbCall(i)
               \/ \E i \in Invocations : GetDbConnect(i)
               \/ \E i \in Invocations : GetDbPragma(i)
               \/ \E i \in Invocations : GetDbReturn(i)
               \/ CloseDbCall
               \/ CloseDbDone]_vars

\* The call with its page set to the whole table.
unpaged(c) == [c.a EXCEPT !.limit = Len(c.table), !.offset = 0]

min_of(x, y) == IF x < y THEN x ELSE y
max_of(x, y) == IF x > y THEN x ELSE y

\* C21: the total of a search is the number of active jobs that match, the
\* same whatever limit and offset are, and its jobs are the elements at
\* positions offset .. offset + limit - 1 (from 0) of one full ordered list of
\* the matches, min(limit, max(0, total - offset)) of them.
C21_PageOfTheFullList ==
    (ret # None /\ Val(ret).status = "ok") =>
        \E whole \in search_jobs(unpaged(call), call.table, call.companies, call.index) :
            /\ whole.status = "ok"
            /\ Val(ret).total = Len(whole.jobs)
            /\ Val(ret).total = whole.total
            /\ Len(Val(ret).jobs) =
                   min_of(call.a.limit, max_of(0, Val(ret).total - call.a.offset))
            /\ \A k \in 1..Len(Val(ret).jobs) :
                   Val(ret).jobs[k] = whole.jobs[call.a.offset + k]

\* A search with offset 1 and limit 2 over more than three matches returned
\* two jobs.
C21_Witness ==
    /\ ret # None /\ Val(ret).status = "ok"
    /\ call.a.offset = 1 /\ call.a.limit = 2
    /\ Val(ret).total > 3
    /\ Len(Val(ret).jobs) = 2

\* A search whose offset is past the last match returned no job and the
\* total of the matches.
C21_WitnessPastEnd ==
    /\ ret # None /\ Val(ret).status = "ok"
    /\ call.a.offset = 3 /\ truthy_str(call.a.q)
    /\ Val(ret).total \in 1..3
    /\ Val(ret).jobs = <<>>

\* C22: normalize_skill of what normalize_skill returned is that same token,
\* and every value of the alias table is no key of it or a key that maps to
\* itself.
C22_NormalizeIdempotent ==
    /\ (call.fn = "normalize_skill" /\ ret # None /\ Len(Val(ret)) = 2) =>
           Val(ret)[2] = Val(ret)[1]
    /\ \A k \in DOMAIN SKILL_ALIASES :
           \/ SKILL_ALIASES[k] \notin DOMAIN SKILL_ALIASES
           \/ SKILL_ALIASES[SKILL_ALIASES[k]] = SKILL_ALIASES[k]

\* A padded alias was normalized twice, to a canonical token that is not the
\* alias.
C22_Witness ==
    /\ call.fn = "normalize_skill" /\ ret # None /\ Len(Val(ret)) = 2
    /\ call.skill = <<" ">> \o <<"k", "8", "s">> \o <<"\t", " ">>
    /\ Val(ret) = <<<<"k", "u", "b", "e", "r", "n", "e", "t", "e", "s">>, <<"k", "u", "b", "e", "r", "n", "e", "t", "e", "s">>>>

\* A token the table does not know was normalized twice.
C22_WitnessUnknown ==
    /\ call.fn = "normalize_skill" /\ ret # None /\ Len(Val(ret)) = 2
    /\ call.skill = <<" ", "R", "u", "s", "t", " ">>
    /\ Val(ret)[2] = <<"r", "u", "s", "t">>

\* The canonical forms of the call's explicit skills and of the skills found
\* in its resume text, when it has one.
canonical_sources(c) ==
    {normalize_skill(s) : s \in Range(opt_list(c.skills))}
    \cup (IF truthy_str(c.resume_text)
          THEN {normalize_skill(s) : s \in Range(extract_skills_from_text(Val(c.resume_text)))}
          ELSE {})

\* No element twice, each element its own canonical form.
canonical_and_unique(xs) ==
    /\ \A i, j \in 1..Len(xs) : xs[i] = xs[j] => i = j
    /\ \A i \in 1..Len(xs) : normalize_skill(xs[i]) = xs[i]

\* C23, as stated: the candidate skills hold no token twice, each is its own
\* canonical form, and a token is among them exactly when it is the canonical
\* form of an explicit skill or of a skill found in the resume text.
C23_CandidateSkillsAsStated ==
    (call.fn = "candidate_skills" /\ ret # None) =>
        /\ canonical_and_unique(Val(ret))
        /\ Range(Val(ret)) = canonical_sources(call)

\* C23, amended: the candidate skills hold no token twice, each is its own
\* canonical form, and a token is among them exactly when it is not empty and
\* is the canonical form of an explicit skill or of a skill found in the resume
\* text.
C23_CandidateSkills ==
    (call.fn = "candidate_skills" /\ ret # None) =>
        /\ canonical_and_unique(Val(ret))
        /\ Range(Val(ret)) = canonical_sources(call) \ {<<>>}

\* Two aliases of one token and a resume naming another skill gave the two
\* canonical tokens.
C23_Witness ==
    /\ call.fn = "candidate_skills" /\ ret # None
    /\ call.skills = Some(<<<<"P", "y", "t", "h", "o", "n">>, <<"p", "y", "t", "h", "o", "n", "3">>>>)
    /\ call.resume_text = Some(<<"M", "a", "c", "h", "i", "n", "e", " ", "L", "e", "a", "r", "n", "i", "n", "g", " ", "e", "n", "g", "i", "n", "e", "e", "r">>)
    /\ Range(Val(ret)) = {<<"p", "y", "t", "h", "o", "n">>, <<"m", "a", "c", "h", "i", "n", "e", "-", "l", "e", "a", "r", "n", "i", "n", "g">>}
    /\ Len(Val(ret)) = 2

\* A blank explicit skill beside a real one gave the real one alone.
C23_WitnessBlank ==
    /\ call.fn = "candidate_skills" /\ ret # None
    /\ call.skills = Some(<<<<" ">>, <<"S", "Q", "L">>>>)
    /\ call.resume_text = None
    /\ Val(ret) = <<<<"s", "q", "l">>>>

\* The keys of the alias table that hold a space, a slash or a period.
phrase_forms == {k \in DOMAIN SKILL_ALIASES : is_multi_word(k)}

\* C24: the skills extracted from a text hold the canonical token of every
\* form with a space, a slash or a period that the text contains as a
\* substring, whatever the case of the text, whether or not a word of the form
\* is found on its own and whatever other forms the text contains.
C24_PhraseFormsFound ==
    (call.fn = "extract_skills_from_text" /\ ret # None) =>
        \A k \in phrase_forms :
            str_in(k, str_lower(call.text)) => SKILL_ALIASES[k] \in Range(Val(ret))

\* "machine learning" alone gave the machine-learning token and nothing else.
C24_Witness ==
    /\ call.fn = "extract_skills_from_text" /\ ret # None
    /\ call.text = <<"m", "a", "c", "h", "i", "n", "e", " ", "l", "e", "a", "r", "n", "i", "n", "g">>
    /\ Val(ret) = <<<<"m", "a", "c", "h", "i", "n", "e", "-", "l", "e", "a", "r", "n", "i", "n", "g">>>>

\* A form at the start of the text, after no word character, was found, and a
\* form inside a longer one was found beside it.
C24_WitnessInside ==
    /\ call.fn = "extract_skills_from_text" /\ ret # None
    /\ \/ call.text = <<".", "n", "e", "t", " ", "d", "e", "v", "e", "l", "o", "p", "e", "r">> /\ Val(ret) = <<<<"d", "o", "t", "n", "e", "t">>>>
       \/ call.text = <<"a", "s", "p", ".", "n", "e", "t", " ", "c", "o", "r", "e">> /\ Val(ret) = <<<<"a", "s", "p", "-", "d", "o", "t", "n", "e", "t">>, <<"d", "o", "t", "n", "e", "t">>>>

\* The keys looked for as single words: no space, slash or period, and longer
\* than one character or one of r and c.
word_forms ==
    {k \in DOMAIN SKILL_ALIASES :
        ~is_multi_word(k) /\ (Len(k) > 1 \/ k \in {<<"r">>, <<"c">>})}

\* The form stands in the text with no letter, digit or underscore on either
\* side of it.
whole_word(k, text) ==
    \E i \in 0..(Len(text) - Len(k)) :
        /\ SubSeq(text, i + 1, i + Len(k)) = k
        /\ (i = 0 \/ ~is_word_char(text[i]))
        /\ (i + Len(k) = Len(text) \/ ~is_word_char(text[i + Len(k) + 1]))

\* C25: the skills extracted from a text hold the canonical token of every
\* single-word form that stands in the text as a whole word, "c++" and "c#"
\* among them, and of no form that does not occur; a text that is the letter
\* r or the letter c alone gives the token of that language, and a one-letter
\* text that is neither gives nothing.
C25_WholeWordsFound ==
    (call.fn = "extract_skills_from_text" /\ ret # None) =>
        LET text_lower == str_lower(call.text)
        IN  /\ \A k \in word_forms :
                   whole_word(k, text_lower) => SKILL_ALIASES[k] \in Range(Val(ret))
            /\ \A v \in Range(Val(ret)) :
                   \E k \in DOMAIN SKILL_ALIASES :
                       /\ SKILL_ALIASES[k] = v
                       /\ IF is_multi_word(k) THEN str_in(k, text_lower)
                          ELSE k \in word_forms /\ whole_word(k, text_lower)
            /\ text_lower \in {<<"r">>, <<"c">>} => Val(ret) = <<text_lower>>
            /\ (Len(text_lower) = 1 /\ text_lower \notin {<<"r">>, <<"c">>}) => Val(ret) = <<>>

\* C26: a get_session of the id an accepted agent_search returned gives the
\* status completed, the jobs of that search and its match_count, and two
\* accepted searches hold different ids.
C26_ReplayGivesTheSearch ==
    \A i, j \in Invocations :
        (inv[i].op = "agent_search" /\ inv[i].pc = "done" /\ inv[i].response.status = "ok") =>
            /\ (inv[j].op = "get_session" /\ inv[j].pc = "done"
                    /\ inv[j].session_id = inv[i].response.session_id) =>
                   /\ inv[j].response.status = "completed"
                   /\ inv[j].response.jobs = inv[i].response.jobs
                   /\ inv[j].response.match_count = inv[i].response.match_count
            /\ (j # i /\ inv[j].op = "agent_search" /\ inv[j].pc = "done"
                    /\ inv[j].response.status = "ok") =>
                   inv[j].response.session_id # inv[i].response.session_id

\* C27: until close_db is called at most one connection has been opened and
\* every caller of get_db has received that connection; and no caller, at any
\* time, receives a connection that close_db has begun to close.
C27_OneConnection ==
    /\ conn.closer = "idle" => conn.opened <= 1
    /\ \A i \in Invocations :
           conn.caller[i].pc = "done" =>
               /\ conn.closer = "idle" => conn.caller[i].got = Some(1)
               /\ ~conn.caller[i].closing

\* C28: whatever is written to the jobs table between the count query and the
\* page query of a search, the page it returns holds no more than
\* max(0, total - offset) jobs.
C28_PageWithinTotal ==
    \A i \in Invocations :
        (inv[i].op = "search_jobs" /\ inv[i].pc = "done" /\ inv[i].response.status = "ok") =>
            Len(inv[i].response.jobs) <=
                max_of(0, inv[i].response.total - inv[i].a.offset)

\* C29: for a job that is not remote, has a location type and no location
\* (None or empty), and a candidate with a non-empty preferred location,
\* _score_location gives 5, 12 or 15, never the 20 of an exact match.
C29_NoLocationNoExactMatch ==
    (/\ call.fn = "_score_location" /\ ret # None
     /\ falsy_str(call.job_location)
     /\ ~falsy_str(call.job_location_type)
     /\ ~lower_is(call.job_location_type, <<"r", "e", "m", "o", "t", "e">>)
     /\ \E i \in 1..Len(call.candidate_locations) : call.candidate_locations[i] # <<>>) =>
        Val(ret).score \in {5, 12, 15}


\* An agent_search whose match_jobs call has returned or raised, and what it
\* returned.
match_jobs_returned(i) ==
    inv[i].op = "agent_search" /\ inv[i].pc \in {"store", "done"} /\ "req" \in DOMAIN inv[i]

match_jobs_outcome(i) ==
    IF "match" \in DOMAIN inv[i] THEN inv[i].match ELSE inv[i].response

differ_only_in_preferences(r, s) ==
    /\ r.job_preferences # s.job_preferences
    /\ [r EXCEPT !.job_preferences = None] = [s EXCEPT !.job_preferences = None]

\* C30: two match_jobs calls whose arguments differ only in job_preferences,
\* run against the same job pool at the same time, extract the same skills and,
\* finding them in the same order, return the same jobs (order, scores,
\* reasons), match_count and extracted_skills.
C30_PreferencesIgnored ==
    \A i, k \in Invocations :
        (/\ match_jobs_returned(i) /\ match_jobs_returned(k)
         /\ differ_only_in_preferences(inv[i].req, inv[k].req)) =>
            /\ match_jobs_outcome(i).status = match_jobs_outcome(k).status
            /\ match_jobs_outcome(i).status = "ok" =>
                   Range(match_jobs_outcome(i).extracted_skills)
                       = Range(match_jobs_outcome(k).extracted_skills)
            /\ inv[i].req.candidate_skills = inv[k].req.candidate_skills =>
                   match_jobs_outcome(i) = match_jobs_outcome(k)

\* A call with job_preferences and one without, otherwise alike, have both
\* returned a job.
C30_Witness ==
    /\ match_jobs_returned("a") /\ match_jobs_returned("b")
    /\ differ_only_in_preferences(inv["a"].req, inv["b"].req)
    /\ inv["a"].req.job_preferences = None
    /\ inv["b"].req.job_preferences = Some(<<"r", "e", "m", "o", "t", "e", " ", "o", "n", "l", "y">>)
    /\ match_jobs_outcome("a").status = "ok"
    /\ match_jobs_outcome("a").jobs # <<>>
    /\ match_jobs_outcome("a").jobs[1].match_score >= 30

\* The same with a resume whose skills come out of a set.
C30_WitnessResume ==
    /\ match_jobs_returned("a") /\ match_jobs_returned("b")
    /\ differ_only_in_preferences(inv["a"].req, inv["b"].req)
    /\ inv["a"].request.resume_text = Some(<<"S", "Q", "L">>)
    /\ inv["a"].request.skills = Some(<<<<"P", "y", "t", "h", "o", "n">>>>)
    /\ match_jobs_outcome("a").status = "ok"
    /\ match_jobs_outcome("a").jobs # <<>>
====
